---- MODULE Spec2Model ----
(***************************************************************************)
(* A model of xraydb-rs: the once-initialised database and its index maps  *)
(* (xraydb-lib/src/db.rs), element resolution, the chemical formula parser *)
(* (xraydb-lib/src/chemparser.rs) and linear interpolation                 *)
(* (xraydb-lib/src/interp.rs).                                             *)
(*                                                                         *)
(* Conventions.  A Rust String / &str is a tuple of one-character strings  *)
(* (<<"F","e">> is "Fe").  A HashMap is a function whose DOMAIN is its key *)
(* set.  A Vec is a sequence; Rust indices are 0-based and kept 0-based in *)
(* the index maps (At0 reads slot idx).  A Result is a record              *)
(* [ok, val, err]; a panic is the outcome "panic".  An f64 count of the    *)
(* formula parser is an exact decimal (a map exponent -> digit); an f64 of  *)
(* the interpolation is a binary float with a short mantissa.              *)
(***************************************************************************)
EXTENDS Integers, Sequences, FiniteSets, TLC

VARIABLES
    \* ---- the OnceLock and the threads that use it (db.rs)
    once,       \* state of DATABASE's Once: "incomplete" | "running" | "poisoned" | "complete"
    DATABASE,   \* the value slot of the OnceLock: NoDb or an InitializedDb
    blob,       \* COMPRESSED_DATA, the bytes embedded at build time
    pc,         \* pc[t]: where thread t is in XrayDb::new() and after
    local,      \* local[t]: the closure's local value under construction
    handle,     \* handle[t]: TRUE when thread t holds an XrayDb
    lookups,    \* lookups[t]: the results of the lookups thread t has made
    inits,      \* number of times the initialising closure ran to completion
    \* ---- one call of resolve_element (db.rs)
    rid, rres, rpc,
    \* ---- one call of chemparse (chemparser.rs)
    formula, ast, cres, cpc,
    \* ---- one call of interp_one (interp.rs)
    ix, ixp, ifp, ires, ipc,
    \* ---- one call of another operation: its arguments, its result and
    \* whether it has run ("idle" | "call" | "done")
    input, output, step

concVars == <<once, DATABASE, blob, pc, local, handle, lookups, inits>>
resolveVars == <<rid, rres, rpc>>
chemVars == <<formula, ast, cres, cpc>>
interpVars == <<ix, ixp, ifp, ires, ipc>>
callVars == <<input, output, step>>
vars == <<concVars, resolveVars, chemVars, interpVars, callVars>>

----------------------------------------------------------------------------
(* Results and small helpers *)

Ok(v) == [ok |-> TRUE, val |-> v, err |-> "none"]
Err(kind) == [ok |-> FALSE, val |-> 0, err |-> kind]

Abs(n) == IF n < 0 THEN -n ELSE n

EmptyMap == [k \in {} |-> 0]

\* HashMap::insert: the later insertion of a key replaces the earlier one
Insert(m, k, v) == [x \in (DOMAIN m) \cup {k} |-> IF x = k THEN v ELSE m[x]]

\* slice.get(idx) with a 0-based idx
At0(seq, idx) == IF idx >= 0 /\ idx < Len(seq) THEN Ok(seq[idx + 1]) ELSE Err("None")

----------------------------------------------------------------------------
(* Characters *)

UPPERS == <<"A","B","C","D","E","F","G","H","I","J","K","L","M",
            "N","O","P","Q","R","S","T","U","V","W","X","Y","Z">>
LOWERS == <<"a","b","c","d","e","f","g","h","i","j","k","l","m",
            "n","o","p","q","r","s","t","u","v","w","x","y","z">>
DIGITS == <<"0","1","2","3","4","5","6","7","8","9">>

is_ascii_uppercase(c) == \E i \in 1..26 : UPPERS[i] = c
is_ascii_lowercase(c) == \E i \in 1..26 : LOWERS[i] = c
is_ascii_digit(c) == \E i \in 1..10 : DIGITS[i] = c
DigitVal(c) == (CHOOSE i \in 1..10 : DIGITS[i] = c) - 1

ToLowerChar(c) ==
    IF is_ascii_uppercase(c) THEN LOWERS[CHOOSE i \in 1..26 : UPPERS[i] = c] ELSE c

\* str::to_lowercase on ASCII text
to_lowercase(s) == [i \in 1..Len(s) |-> ToLowerChar(s[i])]

----------------------------------------------------------------------------
(* The embedded database: a few rows of the real tables *)

U16_MAX == 65535

EmbeddedData ==
    [ elements |-> <<
          [atomic_number |-> 7,   symbol |-> <<"N">>,     name |-> <<"n","i","t","r","o","g","e","n">>],
          [atomic_number |-> 8,   symbol |-> <<"O">>,     name |-> <<"o","x","y","g","e","n">>],
          [atomic_number |-> 10,  symbol |-> <<"N","e">>, name |-> <<"n","e","o","n">>],
          [atomic_number |-> 102, symbol |-> <<"N","o">>, name |-> <<"n","o","b","e","l","i","u","m">>] >>,
      chantler |-> <<
          [element |-> <<"N">>], [element |-> <<"O">>], [element |-> <<"N","e">>] >>,
      photoabsorption |-> <<
          [element |-> <<"N">>], [element |-> <<"O">>], [element |-> <<"N","e">>] >>,
      scattering |-> <<
          [element |-> <<"N">>], [element |-> <<"O">>], [element |-> <<"N","e">>] >>,
      waasmaier |-> <<
          [atomic_number |-> 7,  element |-> <<"N">>,     ion |-> <<"N">>],
          [atomic_number |-> 8,  element |-> <<"O">>,     ion |-> <<"O">>],
          [atomic_number |-> 8,  element |-> <<"O">>,     ion |-> <<"O","1","-">>],
          [atomic_number |-> 10, element |-> <<"N","e">>, ion |-> <<"N","e">>] >> ]

----------------------------------------------------------------------------
(* db(): decompress, deserialize, build the lookup indices (db.rs 24-86) *)

\* The embedded bytes: a zstd frame around a postcard payload.
ValidBlob == [frame |-> "zstd", payload |-> "postcard"]
Blobs == { ValidBlob,
           [frame |-> "corrupt", payload |-> "postcard"],
           [frame |-> "zstd", payload |-> "truncated"] }

\* StreamingDecoder::new(..).expect(..) and read_to_end(..).expect(..)
Decompress(b) == IF b.frame = "zstd" THEN Ok(b.payload) ELSE Err("panic")

\* A variant that falls back to an empty database (unwrap_or_default) instead of panicking
EmptyData ==
    [ elements |-> <<>>, chantler |-> <<>>, photoabsorption |-> <<>>,
      scattering |-> <<>>, waasmaier |-> <<>> ]
DeserializeOrDefault(bytes) == IF bytes = "postcard" THEN Ok(EmbeddedData) ELSE Ok(EmptyData)

\* postcard::from_bytes(&decompressed).expect(..)
Deserialize(bytes) == IF bytes = "postcard" THEN Ok(EmbeddedData) ELSE Err("panic")

NoElementIndices ==
    [symbol_to_z |-> EmptyMap, name_to_z |-> EmptyMap, z_to_element_idx |-> EmptyMap]

\* for (idx, elem) in data.elements.iter().enumerate() { five inserts }
RECURSIVE IndexElements(_, _, _)
IndexElements(elements, idx, acc) ==
    IF idx >= Len(elements) THEN acc
    ELSE LET elem == elements[idx + 1]
             z == elem.atomic_number
         IN IndexElements(elements, idx + 1,
              [symbol_to_z |-> Insert(Insert(acc.symbol_to_z, elem.symbol, z),
                                      to_lowercase(elem.symbol), z),
               name_to_z |-> Insert(Insert(acc.name_to_z, elem.name, z),
                                    to_lowercase(elem.name), z),
               z_to_element_idx |-> Insert(acc.z_to_element_idx, z, idx)])

\* A variant that counts the rows from 1
RECURSIVE IndexByElementFromOne(_, _, _)
IndexByElementFromOne(rows, idx, acc) ==
    IF idx >= Len(rows) THEN acc
    ELSE IndexByElementFromOne(rows, idx + 1, Insert(acc, rows[idx + 1].element, idx + 1))

\* for (idx, row) in table.iter().enumerate() { map.insert(row.element.clone(), idx) }
RECURSIVE IndexByElement(_, _, _)
IndexByElement(rows, idx, acc) ==
    IF idx >= Len(rows) THEN acc
    ELSE IndexByElement(rows, idx + 1, Insert(acc, rows[idx + 1].element, idx))

\* symbol_to_waasmaier_idxs.entry(element).or_insert_with(Vec::new).push(idx)
PushEntry(m, k, idx) ==
    Insert(m, k, IF k \in DOMAIN m THEN Append(m[k], idx) ELSE <<idx>>)

NoWaasmaierIndices ==
    [ion_to_waasmaier_idx |-> EmptyMap, symbol_to_waasmaier_idxs |-> EmptyMap]

RECURSIVE IndexWaasmaier(_, _, _)
IndexWaasmaier(rows, idx, acc) ==
    IF idx >= Len(rows) THEN acc
    ELSE LET row == rows[idx + 1]
         IN IndexWaasmaier(rows, idx + 1,
              [ion_to_waasmaier_idx |-> Insert(acc.ion_to_waasmaier_idx, row.ion, idx),
               symbol_to_waasmaier_idxs |->
                   PushEntry(acc.symbol_to_waasmaier_idxs, row.element, idx)])

\* A variant that leaves the Waasmaier maps to be filled later
BuildIndicesLazy(data) ==
    LET e == IndexElements(data.elements, 0, NoElementIndices)
    IN [ data |-> data,
         symbol_to_z |-> e.symbol_to_z,
         name_to_z |-> e.name_to_z,
         z_to_element_idx |-> e.z_to_element_idx,
         symbol_to_chantler_idx |-> IndexByElement(data.chantler, 0, EmptyMap),
         symbol_to_photo_idx |-> IndexByElement(data.photoabsorption, 0, EmptyMap),
         symbol_to_scatter_idx |-> IndexByElement(data.scattering, 0, EmptyMap),
         ion_to_waasmaier_idx |-> EmptyMap,
         symbol_to_waasmaier_idxs |-> EmptyMap ]

\* The value the closure returns: the data and the eight index maps
BuildIndices(data) ==
    LET e == IndexElements(data.elements, 0, NoElementIndices)
        w == IndexWaasmaier(data.waasmaier, 0, NoWaasmaierIndices)
    IN [ data |-> data,
         symbol_to_z |-> e.symbol_to_z,
         name_to_z |-> e.name_to_z,
         z_to_element_idx |-> e.z_to_element_idx,
         symbol_to_chantler_idx |-> IndexByElement(data.chantler, 0, EmptyMap),
         symbol_to_photo_idx |-> IndexByElement(data.photoabsorption, 0, EmptyMap),
         symbol_to_scatter_idx |-> IndexByElement(data.scattering, 0, EmptyMap),
         ion_to_waasmaier_idx |-> w.ion_to_waasmaier_idx,
         symbol_to_waasmaier_idxs |-> w.symbol_to_waasmaier_idxs ]

\* map.get(key).and_then(|&idx| table.get(idx)): the body of element_by_z,
\* chantler_by_symbol, photo_by_symbol, scatter_by_symbol and waasmaier_by_ion
\* (db.rs 162-198)
RowBy(table, map, key) ==
    IF key \in DOMAIN map THEN At0(table, map[key]) ELSE Err("None")

\* XrayDb::waasmaier_indices_by_symbol (db.rs 200-205)
waasmaier_indices_by_symbol(db, sym) ==
    IF sym \in DOMAIN db.symbol_to_waasmaier_idxs
    THEN Ok(db.symbol_to_waasmaier_idxs[sym]) ELSE Err("None")

----------------------------------------------------------------------------
(* XrayDb::resolve_element (db.rs 107-134) *)

\* element.parse::<u16>(): an optional '+', then one or more digits, at most 65535
RECURSIVE ParseDigitsU16(_, _, _)
ParseDigitsU16(s, i, acc) ==
    IF i > Len(s) THEN Ok(acc)
    ELSE IF ~is_ascii_digit(s[i]) THEN Err("InvalidDigit")
    ELSE LET next == acc * 10 + DigitVal(s[i])
         IN IF next > U16_MAX THEN Err("PosOverflow") ELSE ParseDigitsU16(s, i + 1, next)

ParseU16(s) ==
    LET body == IF Len(s) > 0 /\ s[1] = "+" THEN Tail(s) ELSE s
    IN IF Len(body) = 0 THEN Err("Empty") ELSE ParseDigitsU16(body, 1, 0)

\* A variant that omits the contains_key(&z) test of the numeric step
resolve_element_unchecked(db, element) ==
    LET p == ParseU16(element)
        lower == to_lowercase(element)
    IN IF p.ok THEN Ok(p.val)
       ELSE IF element \in DOMAIN db.symbol_to_z THEN Ok(db.symbol_to_z[element])
       ELSE IF lower \in DOMAIN db.symbol_to_z THEN Ok(db.symbol_to_z[lower])
       ELSE IF element \in DOMAIN db.name_to_z THEN Ok(db.name_to_z[element])
       ELSE IF lower \in DOMAIN db.name_to_z THEN Ok(db.name_to_z[lower])
       ELSE Err("UnknownElement")

resolve_element(db, element) ==
    LET p == ParseU16(element)
        lower == to_lowercase(element)
    IN IF p.ok /\ p.val \in DOMAIN db.z_to_element_idx THEN Ok(p.val)
       ELSE IF element \in DOMAIN db.symbol_to_z THEN Ok(db.symbol_to_z[element])
       ELSE IF lower \in DOMAIN db.symbol_to_z THEN Ok(db.symbol_to_z[lower])
       ELSE IF element \in DOMAIN db.name_to_z THEN Ok(db.name_to_z[element])
       ELSE IF lower \in DOMAIN db.name_to_z THEN Ok(db.name_to_z[lower])
       ELSE Err("UnknownElement")

\* XrayDb::atomic_number delegates to resolve_element
atomic_number(db, element) == resolve_element(db, element)

\* XrayDb::element_by_z
element_by_z(db, z) ==
    IF z \in DOMAIN db.z_to_element_idx
    THEN At0(db.data.elements, db.z_to_element_idx[z]) ELSE Err("None")

\* XrayDb::symbol via element_record
symbol(db, element) ==
    LET r == resolve_element(db, element)
    IN IF ~r.ok THEN r
       ELSE LET rec == element_by_z(db, r.val)
            IN IF rec.ok THEN Ok(rec.val.symbol) ELSE Err("UnknownElement")

----------------------------------------------------------------------------
(* Exact decimals for the f64 counts of the formula parser: a finite map   *)
(* exponent -> digit 1..9; the value is the sum of digit * 10^exponent.    *)

DecZero == EmptyMap
DecOne == [x \in {0} |-> 1]

RECURSIVE SumOver(_, _)
SumOver(S, f) ==
    IF S = {} THEN 0
    ELSE LET x == CHOOSE y \in S : TRUE IN f[x] + SumOver(S \ {x}, f)

\* propagate carries upwards and drop zero digits
RECURSIVE Carry(_)
Carry(p) ==
    IF \E e \in DOMAIN p : p[e] >= 10
    THEN LET e == CHOOSE x \in DOMAIN p : p[x] >= 10 /\ \A y \in DOMAIN p : p[y] >= 10 => x <= y
             up == IF e + 1 \in DOMAIN p THEN p[e + 1] ELSE 0
         IN Carry([x \in (DOMAIN p) \cup {e + 1} |->
                     IF x = e THEN p[e] % 10
                     ELSE IF x = e + 1 THEN up + (p[e] \div 10)
                     ELSE p[x]])
    ELSE [x \in {e \in DOMAIN p : p[e] # 0} |-> p[x]]

DecAdd(a, b) ==
    Carry([x \in (DOMAIN a) \cup (DOMAIN b) |->
              (IF x \in DOMAIN a THEN a[x] ELSE 0) + (IF x \in DOMAIN b THEN b[x] ELSE 0)])

DecMul(a, b) ==
    Carry([x \in {i + j : i \in DOMAIN a, j \in DOMAIN b} |->
              LET I == {i \in DOMAIN a : x - i \in DOMAIN b}
              IN SumOver(I, [i \in I |-> a[i] * b[x - i]])])

\* the digits ds (most significant first) scaled so that the last one has exponent e0
DecOfDigits(ds, e0) ==
    [x \in {e0 + Len(ds) - k : k \in {j \in 1..Len(ds) : DigitVal(ds[j]) # 0}} |->
        DigitVal(ds[e0 + Len(ds) - x])]

----------------------------------------------------------------------------
(* chemparser.rs: the known symbols (5-22) *)

ELEMENTS ==
    { <<"A","c">>, <<"A","g">>, <<"A","l">>, <<"A","m">>, <<"A","r">>, <<"A","s">>,
      <<"A","t">>, <<"A","u">>, <<"B">>, <<"B","a">>, <<"B","e">>, <<"B","i">>,
      <<"B","k">>, <<"B","r">>, <<"C">>, <<"C","a">>, <<"C","d">>, <<"C","e">>,
      <<"C","f">>, <<"C","l">>, <<"C","m">>, <<"C","o">>, <<"C","r">>, <<"C","s">>,
      <<"C","u">>, <<"D","y">>, <<"E","r">>, <<"E","s">>, <<"E","u">>, <<"F">>,
      <<"F","e">>, <<"F","m">>, <<"F","r">>, <<"G","a">>, <<"G","d">>, <<"G","e">>,
      <<"H">>, <<"H","e">>, <<"H","f">>, <<"H","g">>, <<"H","o">>, <<"I">>, <<"I","n">>,
      <<"I","r">>, <<"K">>, <<"K","r">>, <<"L","a">>, <<"L","i">>, <<"L","r">>,
      <<"L","u">>, <<"M","d">>, <<"M","g">>, <<"M","n">>, <<"M","o">>, <<"N">>,
      <<"N","a">>, <<"N","b">>, <<"N","d">>, <<"N","e">>, <<"N","i">>, <<"N","o">>,
      <<"N","p">>, <<"O">>, <<"O","s">>, <<"P">>, <<"P","a">>, <<"P","b">>, <<"P","d">>,
      <<"P","m">>, <<"P","o">>, <<"P","r">>, <<"P","t">>, <<"P","u">>, <<"R","a">>,
      <<"R","b">>, <<"R","e">>, <<"R","h">>, <<"R","n">>, <<"R","u">>, <<"S">>,
      <<"S","b">>, <<"S","c">>, <<"S","e">>, <<"S","i">>, <<"S","m">>, <<"S","n">>,
      <<"S","r">>, <<"T","a">>, <<"T","b">>, <<"T","c">>, <<"T","e">>, <<"T","h">>,
      <<"T","i">>, <<"T","l">>, <<"T","m">>, <<"U">>, <<"U","n","h">>, <<"U","n","p">>,
      <<"U","n","q">>, <<"U","n","s">>, <<"V">>, <<"W">>, <<"X","e">>, <<"Y">>,
      <<"Y","b">>, <<"Z","n">>, <<"Z","r">> }

\* a variant that accepts every name token
is_element_any(sym) == TRUE

is_element(sym) == sym = <<"D">> \/ sym \in ELEMENTS

\* chemparser::resolve_element: D is an alias for H
resolve_alias(sym) == IF sym = <<"D">> THEN <<"H">> ELSE sym

----------------------------------------------------------------------------
(* chemparser.rs: Tokenizer (24-120).  pos is 0-based as in the source.    *)

Tok(type, name, num) == [type |-> type, name |-> name, num |-> num]
TokLParen == Tok("LParen", <<>>, DecZero)
TokRParen == Tok("RParen", <<>>, DecZero)
TokEos == Tok("Eos", <<>>, DecZero)
TokName(name) == Tok("Name", name, DecZero)
TokNum(n) == Tok("Num", <<>>, n)

Ch(chars, pos) == chars[pos + 1]
Slice(chars, start, end) == SubSeq(chars, start + 1, end)

\* while self.pos < len && chars[self.pos].is_ascii_digit() { self.pos += 1 }
RECURSIVE SkipDigits(_, _)
SkipDigits(chars, pos) ==
    IF pos < Len(chars) /\ is_ascii_digit(Ch(chars, pos)) THEN SkipDigits(chars, pos + 1) ELSE pos

\* while self.pos < len && chars[self.pos].is_ascii_lowercase() { self.pos += 1 }
RECURSIVE SkipLower(_, _)
SkipLower(chars, pos) ==
    IF pos < Len(chars) /\ is_ascii_lowercase(Ch(chars, pos)) THEN SkipLower(chars, pos + 1) ELSE pos

RECURSIVE DigitsValue(_, _, _)
DigitsValue(s, i, acc) ==
    IF i > Len(s) THEN acc ELSE DigitsValue(s, i + 1, acc * 10 + DigitVal(s[i]))

\* s.parse::<f64>() on the text read_number collects: digits, an optional '.'
\* and digits, an optional e/E with optional sign and digits.  Rust wants a
\* digit in the mantissa and, after an e/E, at least one exponent digit.
\* [i3, i4) are the exponent digits.
ParseF64End(s, intDigits, fracDigits, hasExp, negative, i3, i4) ==
    IF Len(intDigits) + Len(fracDigits) = 0 THEN Err("InvalidFloat")
    ELSE IF hasExp /\ i4 = i3 THEN Err("InvalidFloat")
    ELSE IF i4 # Len(s) THEN Err("InvalidFloat")
    ELSE Ok(DecOfDigits(intDigits \o fracDigits,
                        (IF negative THEN 0 - DigitsValue(Slice(s, i3, i4), 1, 0)
                         ELSE DigitsValue(Slice(s, i3, i4), 1, 0)) - Len(fracDigits)))

ParseF64Exp(s, intDigits, fracDigits, i2) ==
    IF i2 < Len(s) /\ Ch(s, i2) \in {"e", "E"}
    THEN IF i2 + 1 < Len(s) /\ Ch(s, i2 + 1) \in {"+", "-"}
         THEN ParseF64End(s, intDigits, fracDigits, TRUE, Ch(s, i2 + 1) = "-",
                          i2 + 2, SkipDigits(s, i2 + 2))
         ELSE ParseF64End(s, intDigits, fracDigits, TRUE, FALSE, i2 + 1, SkipDigits(s, i2 + 1))
    ELSE ParseF64End(s, intDigits, fracDigits, FALSE, FALSE, i2, i2)

ParseF64Frac(s, i1) ==
    IF i1 < Len(s) /\ Ch(s, i1) = "."
    THEN ParseF64Exp(s, Slice(s, 0, i1), Slice(s, i1 + 1, SkipDigits(s, i1 + 1)),
                     SkipDigits(s, i1 + 1))
    ELSE ParseF64Exp(s, Slice(s, 0, i1), <<>>, i1)

ParseF64(s) == ParseF64Frac(s, SkipDigits(s, 0))

\* Tokenizer::read_number: returns the token and the new position.
\* the text chars[start..pos] parsed as f64
ReadNumberEnd(v, pos) ==
    IF v.ok THEN Ok([tok |-> TokNum(v.val), pos |-> pos]) ELSE Err("InvalidFormula")

\* the exponent part: e or E, an optional sign, digits
ReadExponent(chars, start, p2) ==
    IF p2 < Len(chars) /\ Ch(chars, p2) \in {"e", "E"}
    THEN IF p2 + 1 < Len(chars) /\ Ch(chars, p2 + 1) \in {"+", "-"}
         THEN ReadNumberEnd(ParseF64(Slice(chars, start, SkipDigits(chars, p2 + 2))),
                            SkipDigits(chars, p2 + 2))
         ELSE ReadNumberEnd(ParseF64(Slice(chars, start, SkipDigits(chars, p2 + 1))),
                            SkipDigits(chars, p2 + 1))
    ELSE ReadNumberEnd(ParseF64(Slice(chars, start, p2)), p2)

\* the decimal part: '.' and digits
ReadDecimal(chars, start, p1) ==
    IF p1 < Len(chars) /\ Ch(chars, p1) = "."
    THEN ReadExponent(chars, start, SkipDigits(chars, p1 + 1))
    ELSE ReadExponent(chars, start, p1)

read_number(chars, start) == ReadDecimal(chars, start, SkipDigits(chars, start))

\* A variant that returns RParen without consuming the ')'
next_token_peek(chars, pos) ==
    IF pos >= Len(chars) THEN Ok([tok |-> TokEos, pos |-> pos])
    ELSE LET ch == Ch(chars, pos)
         IN IF ch = "(" THEN Ok([tok |-> TokLParen, pos |-> pos + 1])
            ELSE IF ch = ")" THEN Ok([tok |-> TokRParen, pos |-> pos])
            ELSE IF is_ascii_digit(ch) \/ ch = "." THEN read_number(chars, pos)
            ELSE IF is_ascii_uppercase(ch)
                 THEN LET end == SkipLower(chars, pos + 1)
                      IN Ok([tok |-> TokName(Slice(chars, pos, end)), pos |-> end])
            ELSE Err("InvalidFormula")

\* Tokenizer::next_token: returns the token and the new position
next_token(chars, pos) ==
    IF pos >= Len(chars) THEN Ok([tok |-> TokEos, pos |-> pos])
    ELSE LET ch == Ch(chars, pos)
         IN IF ch = "(" THEN Ok([tok |-> TokLParen, pos |-> pos + 1])
            ELSE IF ch = ")" THEN Ok([tok |-> TokRParen, pos |-> pos + 1])
            ELSE IF is_ascii_digit(ch) \/ ch = "." THEN read_number(chars, pos)
            ELSE IF is_ascii_uppercase(ch)
                 THEN LET end == SkipLower(chars, pos + 1)
                      IN Ok([tok |-> TokName(Slice(chars, pos, end)), pos |-> end])
            ELSE Err("InvalidFormula")

\* self.pos when read_number returns: behind the digits, the decimal part and
\* the exponent part, whether or not the text parses
ExponentEnd(chars, p2) ==
    IF p2 < Len(chars) /\ Ch(chars, p2) \in {"e", "E"}
    THEN IF p2 + 1 < Len(chars) /\ Ch(chars, p2 + 1) \in {"+", "-"}
         THEN SkipDigits(chars, p2 + 2)
         ELSE SkipDigits(chars, p2 + 1)
    ELSE p2
DecimalEnd(chars, p1) ==
    IF p1 < Len(chars) /\ Ch(chars, p1) = "."
    THEN ExponentEnd(chars, SkipDigits(chars, p1 + 1))
    ELSE ExponentEnd(chars, p1)
NumberEnd(chars, start) == DecimalEnd(chars, SkipDigits(chars, start))

\* self.pos after a call of next_token that returned Err: a number that does
\* not parse has been read, an unrecognized character has not
ErrorPos(chars, pos) ==
    IF pos < Len(chars) /\ (is_ascii_digit(Ch(chars, pos)) \/ Ch(chars, pos) = ".")
    THEN NumberEnd(chars, pos) ELSE pos

----------------------------------------------------------------------------
(* chemparser.rs: preprocess_formula (161-174) *)

\* formula.replace(' ', "")
RECURSIVE RemoveSpaces(_)
RemoveSpaces(s) ==
    IF s = <<>> THEN <<>>
    ELSE IF Head(s) = " " THEN RemoveSpaces(Tail(s))
    ELSE <<Head(s)>> \o RemoveSpaces(Tail(s))

\* push '0' before a '.' that is first or does not follow a digit
RECURSIVE InsertZeros(_, _)
InsertZeros(chars, i) ==
    IF i >= Len(chars) THEN <<>>
    ELSE LET ch == Ch(chars, i)
             zero == IF ch = "." /\ (i = 0 \/ ~is_ascii_digit(Ch(chars, i - 1)))
                     THEN <<"0">> ELSE <<>>
         IN zero \o <<ch>> \o InsertZeros(chars, i + 1)

\* a variant that keeps the spaces
preprocess_keep_spaces(f) == InsertZeros(f, 0)

preprocess_formula(f) == InsertZeros(RemoveSpaces(f), 0)

----------------------------------------------------------------------------
(* chemparser.rs: FormulaNode, parse_sequence, add_to_result, chemparse    *)

Element(sym) == [kind |-> "Element", sym |-> sym, items |-> <<>>]
Sequence(items) == [kind |-> "Sequence", sym |-> <<>>, items |-> items]

\* parse_sequence: one turn of the loop per call of parse_sequence, with the
\* items pushed so far; every next_token error becomes InvalidFormula (the ?).
RECURSIVE parse_sequence(_, _, _, _)
RECURSIVE OptionalCount(_, _, _, _)
RECURSIVE AfterInner(_, _, _)
RECURSIVE AfterLParen(_, _, _)

\* back to the head of the loop with the token t
LoopAgain(chars, items, t) ==
    IF ~t.ok THEN Err("InvalidFormula")
    ELSE parse_sequence(chars, t.val.pos, t.val.tok, items)

\* "Optional count after ')'" / "Optional count after element", then items.push
OptionalCount(chars, items, node, t) ==
    IF ~t.ok THEN Err("InvalidFormula")
    ELSE IF t.val.tok.type = "Num"
         THEN LoopAgain(chars, Append(items, <<node, t.val.tok.num>>),
                        next_token(chars, t.val.pos))
         ELSE parse_sequence(chars, t.val.pos, t.val.tok, Append(items, <<node, DecOne>>))

\* after the nested parse_sequence(tokenizer, current)?
AfterInner(chars, items, inner) ==
    IF ~inner.ok THEN inner
    ELSE IF inner.val.tok.type # "RParen" THEN Err("InvalidFormula")
    ELSE OptionalCount(chars, items, inner.val.node, next_token(chars, inner.val.pos))

\* after the token that follows '('
AfterLParen(chars, items, t) ==
    IF ~t.ok THEN Err("InvalidFormula")
    ELSE AfterInner(chars, items, parse_sequence(chars, t.val.pos, t.val.tok, <<>>))

parse_sequence(chars, pos, current, items) ==
    IF current.type = "LParen"
    THEN AfterLParen(chars, items, next_token(chars, pos))
    ELSE IF current.type = "Name"
    THEN IF ~is_element(current.name) THEN Err("InvalidFormula")
         ELSE OptionalCount(chars, items, Element(resolve_alias(current.name)),
                            next_token(chars, pos))
    ELSE Ok([node |-> Sequence(items), tok |-> current, pos |-> pos])

\* *result.entry(sym).or_insert(0.0) += weight, through the tree
RECURSIVE add_to_result(_, _, _)
RECURSIVE add_items(_, _, _, _)
add_to_result(node, weight, result) ==
    IF node.kind = "Element"
    THEN Insert(result, node.sym,
                DecAdd(IF node.sym \in DOMAIN result THEN result[node.sym] ELSE DecZero, weight))
    ELSE add_items(node.items, 1, weight, result)
add_items(items, i, weight, result) ==
    IF i > Len(items) THEN result
    ELSE add_items(items, i + 1, weight,
                   add_to_result(items[i][1], DecMul(weight, items[i][2]), result))

\* after parse_sequence(&mut tokenizer, first)?
ChemparseEnd(parsed) ==
    IF ~parsed.ok THEN parsed
    ELSE IF parsed.val.tok.type # "Eos" THEN Err("InvalidFormula")
    ELSE Ok(add_to_result(parsed.val.node, DecOne, EmptyMap))

\* from the first token on
ChemparseTokens(chars, first) ==
    IF ~first.ok THEN Err("InvalidFormula")
    ELSE ChemparseEnd(parse_sequence(chars, first.val.pos, first.val.tok, <<>>))

ChemparseChars(chars) == ChemparseTokens(chars, next_token(chars, 0))

chemparse(f) == ChemparseChars(preprocess_formula(f))

validate_formula(f) == chemparse(f).ok

----------------------------------------------------------------------------
(* interp.rs: f64 arithmetic.  A float is modelled in a binary format with  *)
(* MantBits bits of mantissa and gradual underflow: the integer V stands    *)
(* for V / 2^FracBits, and V is a float when |V| < 2^MantBits or when |V|   *)
(* is m * 2^j with m < 2^MantBits.  Every operation rounds its exact result *)
(* to the nearest float, ties to the even mantissa, as IEEE 754 does.       *)

MantBits == 3
FracBits == 4

RECURSIVE Pow2(_)
Pow2(k) == IF k <= 0 THEN 1 ELSE 2 * Pow2(k - 1)

\* the float 1.0
FloatOne == Pow2(FracBits)

\* the distance between neighbouring floats around a/d
RECURSIVE Spacing(_, _, _)
Spacing(a, d, s) == IF a < Pow2(MantBits) * s * d THEN s ELSE Spacing(a, d, 2 * s)

\* n/d (d > 0) rounded to the nearest float, ties to even
RoundRat(n, d) ==
    LET a == Abs(n)
        s == Spacing(a, d, 1)
        q == a \div (d * s)
        r == a - q * d * s
        m == IF 2 * r > d * s \/ (2 * r = d * s /\ q % 2 = 1) THEN q + 1 ELSE q
    IN (IF n < 0 THEN -1 ELSE 1) * m * s

FAdd(a, b) == RoundRat(a + b, 1)
FSub(a, b) == RoundRat(a - b, 1)
FMul(a, b) == RoundRat(a * b, FloatOne)
\* b # 0; a division by zero yields an infinity or a NaN, no float
FDiv(a, b) == IF b < 0 THEN RoundRat(-(a * FloatOne), -b) ELSE RoundRat(a * FloatOne, b)

\* f64::EPSILON: the distance between 1.0 and the next float
EPSILON == Pow2(FracBits - MantBits + 1)

----------------------------------------------------------------------------
(* interp.rs: interp_one (12-34) *)

\* slice::partition_point on a slice whose elements below x come first
partition_point(xp, x) == Cardinality({ i \in 1..Len(xp) : xp[i] < x })

interp_one(x, xp, fp) ==
    IF x <= xp[1] THEN Ok(fp[1])
    ELSE IF x >= xp[Len(xp)] THEN Ok(fp[Len(fp)])
    ELSE LET idx == partition_point(xp, x)
         IN IF idx = 0 THEN Ok(fp[1])
            ELSE IF Abs(FSub(xp[idx + 1], x)) < FMul(EPSILON, Abs(xp[idx + 1]))
                 THEN Ok(fp[idx + 1])
            ELSE LET lo == idx - 1
                     den == FSub(xp[idx + 1], xp[lo + 1])
                 IN IF den = 0 THEN Err("DivisionByZero")
                    ELSE LET t == FDiv(FSub(x, xp[lo + 1]), den)
                         IN Ok(FAdd(fp[lo + 1], FMul(t, FSub(fp[idx + 1], fp[lo + 1]))))

----------------------------------------------------------------------------
(* interp.rs interp / interp_loglog (5-9, 40-48) and chantler.rs.           *)
(* The numbers of the Chantler tables span two hundred decades, so they are *)
(* kept on a logarithmic scale: the integer n stands for 0.0 when n = 0,    *)
(* for a positive number that grows with n when n > 0, and for its negation *)
(* when n < 0.  SAFE_FLOOR is the n of 1e-99 and CHANTLER_EMAX the n of     *)
(* 1e6.  Comparisons, abs, min and clamp are those of the integers; ln(n)   *)
(* is the float n (in units of FloatOne) for n > 0, -inf for 0 and NaN for  *)
(* n < 0.  exp is left symbolic.                                            *)

SAFE_FLOOR == 2
CHANTLER_EMAX == 6

Ln(n) == n * FloatOne
Exp(r) == [finite |-> r.ok, exp |-> r.val]

MapSeq(seq, Op(_)) == [i \in 1..Len(seq) |-> Op(seq[i])]
AllPositive(seq) == \A i \in 1..Len(seq) : seq[i] > 0

\* a variant of interp that evaluates every entry at the first query
interp_first(x, xp, fp) == [i \in 1..Len(x) |-> interp_one(x[1], xp, fp)]

\* interp: x.iter().map(|&xi| interp_one(xi, xp, fp)).collect()
interp(x, xp, fp) == [i \in 1..Len(x) |-> interp_one(x[i], xp, fp)]

\* interp_loglog.  logged holds the values v.ln() is applied to.  When one of
\* them is not positive the computation goes on with -inf or NaN; that result
\* is not followed further ("NonFinite").
interp_loglog(x, xp, fp) ==
    [ logged |-> [x |-> x, xp |-> xp, fp |-> fp],
      res |-> IF AllPositive(x) /\ AllPositive(xp) /\ AllPositive(fp)
              THEN Ok(MapSeq(interp(MapSeq(x, Ln), MapSeq(xp, Ln), MapSeq(fp, Ln)), Exp))
              ELSE Err("NonFinite") ]

NothingLogged == [x |-> <<>>, xp |-> <<>>, fp |-> <<>>]
NoLog(res) == [logged |-> NothingLogged, res |-> res]

\* a variant of safe_for_log that leaves the values as they are
safe_for_log_none(values) == values

\* safe_for_log: if v.abs() < 1e-99 { 1e-99 } else { v }
safe_for_log(values) ==
    [i \in 1..Len(values) |-> IF Abs(values[i]) < SAFE_FLOOR THEN SAFE_FLOOR ELSE values[i]]

\* chantler_energy_bounds: (first or 0.0, min(last or emin, 1e6))
chantler_energy_bounds(row) ==
    [ emin |-> IF Len(row.energy) = 0 THEN 0 ELSE row.energy[1],
      emax |-> IF Len(row.energy) = 0 THEN 0
               ELSE IF row.energy[Len(row.energy)] < CHANTLER_EMAX
                    THEN row.energy[Len(row.energy)] ELSE CHANTLER_EMAX ]

\* f64::clamp: panics when min > max
F64Clamp(e, min, max) == IF e < min THEN min ELSE IF e > max THEN max ELSE e
clamp_energies(energies, b) == [i \in 1..Len(energies) |-> F64Clamp(energies[i], b.emin, b.emax)]
ClampPanics(energies, b) == Len(energies) > 0 /\ b.emin > b.emax

\* XrayDb::chantler_by_symbol: the row of the symbol, if it has one.  The
\* columns of the row are those of cols.
chantler_by_symbol(db, cols, sym) ==
    IF sym \in DOMAIN db.symbol_to_chantler_idx
       /\ At0(db.data.chantler, db.symbol_to_chantler_idx[sym]).ok
    THEN Ok(cols) ELSE Err("UnknownElement")

\* XrayDb::chantler_record
ChantlerRecordOf(db, cols, sym) ==
    IF ~sym.ok THEN Err("UnknownElement") ELSE chantler_by_symbol(db, cols, sym.val)
chantler_record(db, cols, element) == ChantlerRecordOf(db, cols, symbol(db, element))

\* the common end of f2_chantler and mu_chantler
LoglogOf(row, energies, values) ==
    IF ClampPanics(energies, chantler_energy_bounds(row)) THEN NoLog(Err("panic"))
    ELSE interp_loglog(clamp_energies(energies, chantler_energy_bounds(row)),
                       row.energy, safe_for_log(values))

F2Row(row, energies) == IF ~row.ok THEN NoLog(row) ELSE LoglogOf(row.val, energies, row.val.f2)
f2_chantler(db, cols, element, energies) ==
    F2Row(chantler_record(db, cols, element), energies)

ChantlerKinds == {"Total", "Photo", "Incoherent"}
ChantlerColumn(row, kind) ==
    CASE kind = "Total" -> row.mu_total
      [] kind = "Photo" -> row.mu_photo
      [] kind = "Incoherent" -> row.mu_incoh
MuRow(row, energies, kind) ==
    IF ~row.ok THEN NoLog(row) ELSE LoglogOf(row.val, energies, ChantlerColumn(row.val, kind))
mu_chantler(db, cols, element, energies, kind) ==
    MuRow(chantler_record(db, cols, element), energies, kind)

----------------------------------------------------------------------------
(* spline.rs elam_spline (14-37) and elam.rs.  Energies are on the          *)
(* logarithmic scale of the Chantler section: ELAM_EMIN is the n of 100 eV  *)
(* and ELAM_EMAX the n of 800 keV.  The tables hold logarithms, which are   *)
(* floats; the spline is computed in float arithmetic.  A value that comes  *)
(* out of exp, and what is computed from it, is kept as a term: a number, or *)
(* an operation applied to terms.                                           *)

ELAM_EMIN == 2
ELAM_EMAX == 6

Term(op, args, v) == [op |-> op, args |-> args, v |-> v, d |-> DecZero]
TNum(v) == Term("num", <<>>, v)
TCount(c) == [op |-> "count", args |-> <<>>, v |-> 0, d |-> c]
TExp(v) == Term("exp", <<>>, v)
TAdd(a, b) == Term("add", <<a, b>>, 0)
TMul(a, b) == Term("mul", <<a, b>>, 0)
TDiv(a, b) == Term("div", <<a, b>>, 0)

\* a variant that always takes the first bracket
SplineHiFirst(xin, i) == IF 1 < Len(xin) - 1 THEN 1 ELSE Len(xin) - 1

\* match xin.partition_point(|&v| v < x) { i if i >= len => len - 1, 0 => 1.min(len - 1), i => i }
SplineHi(xin, i) ==
    IF i >= Len(xin) THEN Len(xin) - 1
    ELSE IF i = 0 THEN (IF 1 < Len(xin) - 1 THEN 1 ELSE Len(xin) - 1)
    ELSE i

\* a variant that weighs yin[lo] with b and yin[hi] with a
SplineValueSwapped(a, b, diff, ylo, yhi, slo, shi) ==
    FAdd(FAdd(FMul(b, ylo), FMul(a, yhi)),
         FMul(FDiv(FMul(diff, diff), 6 * FloatOne),
              FAdd(FMul(FMul(FSub(FMul(a, a), FloatOne), a), slo),
                   FMul(FMul(FSub(FMul(b, b), FloatOne), b), shi))))

\* a * yin[lo] + b * yin[hi] + (diff * diff / 6.0) * ((a*a - 1.0)*a*yspl[lo] + (b*b - 1.0)*b*yspl[hi])
SplineValue(a, b, diff, ylo, yhi, slo, shi) ==
    FAdd(FAdd(FMul(a, ylo), FMul(b, yhi)),
         FMul(FDiv(FMul(diff, diff), 6 * FloatOne),
              FAdd(FMul(FMul(FSub(FMul(a, a), FloatOne), a), slo),
                   FMul(FMul(FSub(FMul(b, b), FloatOne), b), shi))))

\* hi and lo = hi - 1 are 0-based
SplineBracket(xin, yin, yspl, x, hi, diff) ==
    SplineValue(FDiv(FSub(xin[hi + 1], x), diff), FDiv(FSub(x, xin[hi]), diff), diff,
                yin[hi], yin[hi + 1], yspl[hi], yspl[hi + 1])

\* a variant that clamps the query to the table before the formula
SplineOneClamped(xin, yin, yspl, x, hi) ==
    SplineBracket(xin, yin, yspl,
                  IF x < xin[1] THEN xin[1] ELSE IF x > xin[Len(xin)] THEN xin[Len(xin)] ELSE x,
                  hi, FSub(xin[hi + 1], xin[hi]))

SplineOne(xin, yin, yspl, x, hi) ==
    SplineBracket(xin, yin, yspl, x, hi, FSub(xin[hi + 1], xin[hi]))

elam_spline(xin, yin, yspl, xout) ==
    [i \in 1..Len(xout) |->
        SplineOne(xin, yin, yspl, xout[i], SplineHi(xin, partition_point(xin, xout[i])))]

\* what lo = hi - 1, xin[lo] and xin[hi] do for a table of len knots: a
\* table without knots stops at xin.len() - 1, a table of one knot at hi - 1
\* (with overflow checks) or at xin[lo] (without)
SplineAborts(len) == len < 2

\* the bracket (lo, hi) of each query, counted from 0
SplineBrackets(xin, xout) ==
    [i \in 1..Len(xout) |->
        [lo |-> SplineHi(xin, partition_point(xin, xout[i])) - 1,
         hi |-> SplineHi(xin, partition_point(xin, xout[i]))]]

\* elam_spline with the brackets it used
ElamSplineOf(xin, yin, yspl, xout) ==
    IF xout = <<>> THEN Ok([values |-> <<>>, brackets |-> <<>>])
    ELSE IF SplineAborts(Len(xin)) THEN Err("panic")
    ELSE Ok([values |-> elam_spline(xin, yin, yspl, xout),
             brackets |-> SplineBrackets(xin, xout)])

\* a variant that takes the logarithm of the energy as it is (positive energies)
ln_energies(energies) == [i \in 1..Len(energies) |-> Ln(energies[i])]

\* clamp_log_energies: e.clamp(100.0, 800_000.0).ln()
clamp_log_energies(energies) ==
    [i \in 1..Len(energies) |-> Ln(F64Clamp(energies[i], ELAM_EMIN, ELAM_EMAX))]

\* XrayDb::photo_by_symbol and scatter_by_symbol; the columns are those of cols
photo_by_symbol(db, cols, sym) ==
    IF sym \in DOMAIN db.symbol_to_photo_idx
       /\ At0(db.data.photoabsorption, db.symbol_to_photo_idx[sym]).ok
    THEN Ok(cols.photo) ELSE Err("UnknownElement")
scatter_by_symbol(db, cols, sym) ==
    IF sym \in DOMAIN db.symbol_to_scatter_idx
       /\ At0(db.data.scattering, db.symbol_to_scatter_idx[sym]).ok
    THEN Ok(cols.scatter) ELSE Err("UnknownElement")

CrossSectionKinds == {"Photo", "Coherent", "Incoherent", "Total"}

ExpAll(logs) == [i \in 1..Len(logs) |-> TExp(logs[i])]

PhotoLog(row, log_en) ==
    elam_spline(row.log_energy, row.log_photoabsorption, row.log_photoabsorption_spline, log_en)
CoherentLog(row, log_en) ==
    elam_spline(row.log_energy, row.log_coherent_scatter, row.log_coherent_scatter_spline, log_en)
IncoherentLog(row, log_en) ==
    elam_spline(row.log_energy, row.log_incoherent_scatter, row.log_incoherent_scatter_spline,
                log_en)

\* cross_section_elam_with_symbol
PhotoOf(row, log_en) == IF ~row.ok THEN row ELSE Ok(ExpAll(PhotoLog(row.val, log_en)))
CoherentOf(row, log_en) == IF ~row.ok THEN row ELSE Ok(ExpAll(CoherentLog(row.val, log_en)))
IncoherentOf(row, log_en) == IF ~row.ok THEN row ELSE Ok(ExpAll(IncoherentLog(row.val, log_en)))
cross_section_elam_with_symbol(db, cols, sym, log_en, kind) ==
    CASE kind = "Photo" -> PhotoOf(photo_by_symbol(db, cols, sym), log_en)
      [] kind = "Coherent" -> CoherentOf(scatter_by_symbol(db, cols, sym), log_en)
      [] kind = "Incoherent" -> IncoherentOf(scatter_by_symbol(db, cols, sym), log_en)

\* a variant of the Total arm that leaves the incoherent part out
TotalSumTwo(p, c, i) == [k \in 1..Len(p) |-> TAdd(TExp(p[k]), TExp(c[k]))]

\* the Total arm of mu_elam: p.exp() + c.exp() + i.exp()
TotalSum(p, c, i) == [k \in 1..Len(p) |-> TAdd(TAdd(TExp(p[k]), TExp(c[k])), TExp(i[k]))]
TotalOf(photo_row, scatter_row, log_en) ==
    IF ~photo_row.ok THEN photo_row
    ELSE IF ~scatter_row.ok THEN scatter_row
    ELSE Ok(TotalSum(PhotoLog(photo_row.val, log_en), CoherentLog(scatter_row.val, log_en),
                     IncoherentLog(scatter_row.val, log_en)))

MuElamOf(db, cols, sym, log_en, kind) ==
    IF ~sym.ok THEN Err("UnknownElement")
    ELSE IF kind = "Total"
         THEN TotalOf(photo_by_symbol(db, cols, sym.val), scatter_by_symbol(db, cols, sym.val),
                      log_en)
         ELSE cross_section_elam_with_symbol(db, cols, sym.val, log_en, kind)

mu_elam(db, cols, element, energies, kind) ==
    MuElamOf(db, cols, symbol(db, element), clamp_log_energies(energies), kind)

----------------------------------------------------------------------------
(* chantler.rs f1_chantler (43-53): linear interpolation on the linear      *)
(* scale.  Ev gives the energy n of the logarithmic scale in electron       *)
(* volts, as a float: 6 is 1e6 eV; the f1 column holds floats.              *)

Ev(n) ==
    CASE n = 3 -> FloatOne
      [] n = 4 -> 2 * FloatOne
      [] n = 5 -> 3 * FloatOne
      [] n = 6 -> 1000000 * FloatOne
      [] n = 7 -> 2097152 * FloatOne
      [] OTHER -> n

F1Clamped(row, energies, b) ==
    IF ClampPanics(energies, b) THEN Err("panic")
    ELSE Ok(interp(MapSeq(clamp_energies(energies, b), Ev), MapSeq(row.energy, Ev), row.f1))
F1Row(row, energies) ==
    IF ~row.ok THEN row ELSE F1Clamped(row.val, energies, chantler_energy_bounds(row.val))
f1_chantler(db, cols, element, energies) ==
    F1Row(chantler_record(db, cols, element), energies)

----------------------------------------------------------------------------
(* materials.rs material_mu (17-62).  A HashMap is iterated in an order the *)
(* caller does not control: order is the order of composition.iter() and    *)
(* frac_order that of the mass_fracs map.  tables gives each symbol with    *)
(* Elam data its rows.                                                      *)

\* the orders in which the symbols of a composition can come
Perms(S) == { p \in [1..Cardinality(S) -> S] : \A i, j \in 1..Cardinality(S) : p[i] = p[j] => i = j }
IterationOrders(composition) ==
    IF composition.ok THEN Perms(DOMAIN composition.val) ELSE { <<>> }

\* XrayDb::element_record
element_record(db, element) ==
    LET r == resolve_element(db, element)
    IN IF ~r.ok THEN r
       ELSE LET rec == element_by_z(db, r.val)
            IN IF rec.ok THEN rec ELSE Err("UnknownElement")

\* self.molar_mass(sym).unwrap_or(0.0)
MolarMassOrZero(rec) ==
    IF rec.ok THEN Term("molar_mass", <<>>, rec.val.atomic_number) ELSE TNum(0)
molar_mass_or_zero(db, sym) == MolarMassOrZero(element_record(db, sym))

\* count * self.molar_mass(sym).unwrap_or(0.0)
Weight(db, composition, sym) == TMul(TCount(composition[sym]), molar_mass_or_zero(db, sym))

RECURSIVE total_weight(_, _, _, _)
total_weight(db, composition, order, k) ==
    IF k = 0 THEN TNum(0)
    ELSE TAdd(total_weight(db, composition, order, k - 1), Weight(db, composition, order[k]))

\* counts are not negative and molar masses are positive: the sum is positive
\* exactly when one symbol has a count other than zero and a molar mass
PositiveWeight(db, composition) ==
    \E sym \in DOMAIN composition :
        composition[sym] # DecZero /\ element_record(db, sym).ok

TablesOf(tables, sym) == IF sym \in DOMAIN tables THEN tables[sym] ELSE [none |-> TRUE]

\* mu[i] += frac * val
AddWeighted(mu, frac, elem_mu) ==
    IF ~elem_mu.ok THEN elem_mu
    ELSE Ok([i \in 1..Len(mu) |-> TAdd(mu[i], TMul(frac, elem_mu.val[i]))])

RECURSIVE WeightedSum(_, _, _, _, _, _, _, _)
MuStep(db, tables, composition, total, order, energies, kind, k, mu) ==
    IF ~mu.ok THEN mu
    ELSE AddWeighted(mu.val, TDiv(Weight(db, composition, order[k]), total),
                     mu_elam(db, TablesOf(tables, order[k]), order[k], energies, kind))
WeightedSum(db, tables, composition, total, order, energies, kind, k) ==
    IF k = 0 THEN Ok([i \in 1..Len(energies) |-> TNum(0)])
    ELSE MuStep(db, tables, composition, total, order, energies, kind, k,
                WeightedSum(db, tables, composition, total, order, energies, kind, k - 1))

\* *val *= density
TimesDensity(mu, density) ==
    IF ~mu.ok THEN mu ELSE Ok([i \in 1..Len(mu.val) |-> TMul(mu.val[i], TNum(density))])

MaterialMuOf(db, tables, composition, density, energies, kind, order, frac_order) ==
    IF ~composition.ok THEN Err("InvalidFormula")
    ELSE IF ~PositiveWeight(db, composition.val) THEN Err("InvalidFormula")
    ELSE TimesDensity(
             WeightedSum(db, tables, composition.val,
                         total_weight(db, composition.val, order, Len(order)),
                         frac_order, energies, kind, Len(frac_order)),
             density)

material_mu(db, tables, f, density, energies, kind, order, frac_order) ==
    MaterialMuOf(db, tables, chemparse(f), density, energies, kind, order, frac_order)

----------------------------------------------------------------------------
(* materials_db.rs: a few rows of MATERIALS, in the order of the table;     *)
(* densities in units of 1e-7 g/cm3.                                        *)

MATERIALS ==
    <<
       [name |-> <<"n","i","t","r","o","g","e","n">>,
        density |-> 12500, formula |-> <<"N">>],
       [name |-> <<"o","x","y","g","e","n">>,
        density |-> 14290, formula |-> <<"O">>],
       [name |-> <<"n","e","o","n">>,
        density |-> 9002, formula |-> <<"N","e">>],
       [name |-> <<"k","a","p","t","o","n">>,
        density |-> 14200000, formula |-> <<"C","2","2","H","1","0","N","2","O","5">>],
       [name |-> <<"p","o","l","y","i","m","i","d","e">>,
        density |-> 14200000, formula |-> <<"C","2","2","H","1","0","N","2","O","5">>],
       [name |-> <<"b","o","r","o","n"," ","n","i","t","r","i","d","e">>,
        density |-> 21000000, formula |-> <<"B","N">>],
       [name |-> <<"c","u","b","i","c"," ","b","o","r","o","n"," ","n","i","t","r","i","d","e">>,
        density |-> 34500000, formula |-> <<"B","N">>] >>

\* str::eq_ignore_ascii_case
eq_ignore_ascii_case(a, b) ==
    Len(a) = Len(b) /\ \A i \in 1..Len(a) : ToLowerChar(a[i]) = ToLowerChar(b[i])

Found(row) == <<[formula |-> row.formula, density |-> row.density]>>

\* the two loops of find_material over the rows from i on
RECURSIVE FindByName(_, _, _)
FindByName(table, lower, i) ==
    IF i > Len(table) THEN <<>>
    ELSE IF table[i].name = lower THEN Found(table[i])
    ELSE FindByName(table, lower, i + 1)
RECURSIVE FindByFormula(_, _, _)
FindByFormula(table, name, i) ==
    IF i > Len(table) THEN <<>>
    ELSE IF eq_ignore_ascii_case(table[i].formula, name) THEN Found(table[i])
    ELSE FindByFormula(table, name, i + 1)

\* a variant that compares the registry names with the name as given
find_material_exact(name) ==
    IF FindByName(MATERIALS, name, 1) # <<>> THEN FindByName(MATERIALS, name, 1)
    ELSE FindByFormula(MATERIALS, name, 1)

FindIn(table, name) ==
    IF FindByName(table, to_lowercase(name), 1) # <<>>
    THEN FindByName(table, to_lowercase(name), 1)
    ELSE FindByFormula(table, name, 1)
find_material(name) == FindIn(MATERIALS, name)

----------------------------------------------------------------------------
(* ionchamber.rs material_mu_named (29-47).  The result carries the         *)
(* arguments of the call of material_mu, if there was one.  orders gives    *)
(* the iteration orders of the maps of that call.                           *)

\* the formula material_mu_named passes on
FormulaUsed(name) == IF find_material(name) # <<>> THEN find_material(name)[1].formula ELSE name

NoDensity == <<>>
Named(call, res) == [material_mu |-> call, res |-> res]
CallMaterialMu(db, tables, f, dens, energies, kind, orders) ==
    Named(<<[formula |-> f, density |-> dens]>>,
          material_mu(db, tables, f, dens, energies, kind, orders.order, orders.frac_order))

\* a variant that always takes the density of the registry
NamedFoundRegistry(db, tables, found, density, energies, kind, orders) ==
    CallMaterialMu(db, tables, found.formula, found.density, energies, kind, orders)

\* (f, density.unwrap_or(d))
NamedFound(db, tables, found, density, energies, kind, orders) ==
    CallMaterialMu(db, tables, found.formula,
                   IF density = NoDensity THEN found.density ELSE density[1],
                   energies, kind, orders)
\* density.ok_or_else(DataError)?, then (name, d)
NamedNotFound(db, tables, name, density, energies, kind, orders) ==
    IF density = NoDensity THEN Named(<<>>, Err("DataError"))
    ELSE CallMaterialMu(db, tables, name, density[1], energies, kind, orders)

MaterialMuNamedOf(db, tables, found, name, density, energies, kind, orders) ==
    IF found # <<>> THEN NamedFound(db, tables, found[1], density, energies, kind, orders)
    ELSE NamedNotFound(db, tables, name, density, energies, kind, orders)
material_mu_named(db, tables, name, energies, kind, density, orders) ==
    MaterialMuNamedOf(db, tables, find_material(name), name, density, energies, kind, orders)

----------------------------------------------------------------------------
(* materials.rs xray_delta_beta (72-120).  cols is the Chantler row of      *)
(* every element that has one; order is the order of the composition map.   *)

\* sum_f1 += count * (z + f1_vals[0]);  sum_f2 += count * f2_vals[0]
AddScattering(sums, count, z, f1, f2) ==
    IF ~f1.ok THEN f1
    ELSE IF ~f2.ok THEN f2
    ELSE Ok([f1 |-> TAdd(sums.f1, TMul(count, TNum(FAdd(z * FloatOne, f1.val[1].val)))),
             f2 |-> TAdd(sums.f2, TMul(count, TExp(f2.val[1].exp)))])

RECURSIVE ScatteringSums(_, _, _, _, _, _)
SumStep(db, cols, composition, order, energy, k, sums, z) ==
    IF ~sums.ok THEN sums
    ELSE IF ~z.ok THEN Err("UnknownElement")
    ELSE AddScattering(sums.val, TCount(composition[order[k]]), z.val,
                       f1_chantler(db, cols, order[k], <<energy>>),
                       f2_chantler(db, cols, order[k], <<energy>>).res)
ScatteringSums(db, cols, composition, order, energy, k) ==
    IF k = 0 THEN Ok([f1 |-> TNum(0), f2 |-> TNum(0)])
    ELSE SumStep(db, cols, composition, order, energy, k,
                 ScatteringSums(db, cols, composition, order, energy, k - 1),
                 atomic_number(db, order[k]))

\* R_ELECTRON_CM * wavelength * wavelength * density * AVOGADRO / (2 pi total_weight)
Prefactor(energy, density, total) == Term("prefactor", <<TNum(energy), TNum(density), total>>, 0)
\* wavelength / (4 pi beta) if beta > 0.0, else infinity
AttenuationLength(energy, beta) == Term("atlen", <<TNum(energy), beta>>, 0)

DeltaBeta(sums, energy, prefactor) ==
    IF ~sums.ok THEN sums
    ELSE Ok([delta |-> TMul(prefactor, sums.val.f1),
             beta |-> TMul(prefactor, sums.val.f2),
             atlen |-> AttenuationLength(energy, TMul(prefactor, sums.val.f2))])

XrayDeltaBetaOf(db, cols, composition, density, energy, order) ==
    IF ~composition.ok THEN Err("InvalidFormula")
    ELSE IF ~PositiveWeight(db, composition.val) THEN Err("InvalidFormula")
    ELSE DeltaBeta(ScatteringSums(db, cols, composition.val, order, energy, Len(order)),
                   energy,
                   Prefactor(energy, density,
                             total_weight(db, composition.val, order, Len(order))))

xray_delta_beta(db, cols, f, density, energy, order) ==
    XrayDeltaBetaOf(db, cols, chemparse(f), density, energy, order)

----------------------------------------------------------------------------
(* transitions.rs guess_edge (117-141).  levels is raw().xray_levels; edge  *)
(* energies and the energy are floats.                                      *)

DEFAULT_EDGES == << <<"K">>, <<"L","3">>, <<"L","2">>, <<"L","1">>, <<"M","5">> >>

\* edges.unwrap_or(&default_edges)
EdgeFilter(edges) == IF edges = <<>> THEN DEFAULT_EDGES ELSE edges[1]
Contains(seq, x) == \E i \in 1..Len(seq) : seq[i] = x

\* a variant that also replaces the best level by one at the same distance
CloserOrEqual(best, diff) == best = <<>> \/ diff <= best[1].diff

\* best.is_none() || diff < best.as_ref().unwrap().2
Closer(best, diff) == best = <<>> \/ diff < best[1].diff

\* one round of the loop over the levels
GuessStep(level, energy, filter, best) ==
    IF level.absorption_edge <= 0 THEN best
    ELSE IF ~Contains(filter, level.iupac_symbol) THEN best
    ELSE IF Closer(best, Abs(FSub(level.absorption_edge, energy)))
         THEN <<[element |-> level.element, edge |-> level.iupac_symbol,
                 diff |-> Abs(FSub(level.absorption_edge, energy))]>>
         ELSE best

RECURSIVE GuessLoop(_, _, _, _)
GuessLoop(levels, energy, filter, k) ==
    IF k = 0 THEN <<>>
    ELSE GuessStep(levels[k], energy, filter, GuessLoop(levels, energy, filter, k - 1))

\* best.map(|(elem, edge, _)| (elem, edge))
WithoutDiff(best) ==
    IF best = <<>> THEN <<>> ELSE <<[element |-> best[1].element, edge |-> best[1].edge]>>

guess_edge(levels, energy, edges) ==
    WithoutDiff(GuessLoop(levels, energy, EdgeFilter(edges), Len(levels)))

----------------------------------------------------------------------------
(* ionchamber.rs ionchamber_fluxes (59-162).  The result carries the        *)
(* lookups made, in their order.  Fractions are floats; the energy is on    *)
(* the logarithmic scale.  The gases of the model have formulas of one      *)
(* symbol, so the maps of material_mu have one iteration order.             *)

\* raw().ionization_potentials: a few rows, potentials in units of 0.1 eV
IonizationPotentials ==
    << [gas |-> <<"n","i","t","r","o","g","e","n">>, potential |-> 348],
       [gas |-> <<"o","x","y","g","e","n">>, potential |-> 308],
       [gas |-> <<"n","e","o","n">>, potential |-> 354] >>
DEFAULT_POTENTIAL == 320

\* XrayDb::ionization_potential
IonizationRows(ips, gas) ==
    { i \in 1..Len(ips) : to_lowercase(ips[i].gas) = to_lowercase(gas) }
ionization_potential(ips, gas) ==
    IF IonizationRows(ips, gas) = {} THEN Err("UnknownGas")
    ELSE Ok(ips[CHOOSE i \in IonizationRows(ips, gas) :
                    \A j \in IonizationRows(ips, gas) : i <= j].potential)

\* "N2" => "nitrogen", "O2" => "oxygen", other => other
LookupName(gas_name) ==
    CASE gas_name = <<"N","2">> -> <<"n","i","t","r","o","g","e","n">>
      [] gas_name = <<"O","2">> -> <<"o","x","y","g","e","n">>
      [] OTHER -> gas_name

\* ionization_potential(gas_name).or_else(|_| ionization_potential(lookup_name)).unwrap_or(32.0)
PotentialOf(ips, gas_name) ==
    IF ionization_potential(ips, gas_name).ok THEN ionization_potential(ips, gas_name).val
    ELSE IF ionization_potential(ips, LookupName(gas_name)).ok
         THEN ionization_potential(ips, LookupName(gas_name)).val
    ELSE DEFAULT_POTENTIAL

\* gases.iter().map(|(_, f)| f).sum()
RECURSIVE gas_total(_, _)
gas_total(gases, k) == IF k = 0 THEN 0 ELSE FAdd(gas_total(gases, k - 1), gases[k].frac)

\* a variant that accepts every sum
FractionsRejectedNever(total) == FALSE
\* gas_total <= 0.0
FractionsRejected(total) == total <= 0

GasKinds == <<"Photo", "Total", "Incoherent", "Coherent">>
SoleOrders(name) ==
    [ order |-> CHOOSE o \in IterationOrders(chemparse(FormulaUsed(name))) : TRUE,
      frac_order |-> CHOOSE o \in IterationOrders(chemparse(FormulaUsed(name))) : TRUE ]

\* self.material_mu_named(lookup_name, &e_arr, kind, None)?[0]
GasMu(db, tables, name, energy, kind) ==
    material_mu_named(db, tables, name, <<energy>>, kind, NoDensity, SoleOrders(name)).res

\* the four calls for one gas, up to the first that fails
RECURSIVE GasMus(_, _, _, _, _)
GasMuNext(k, prev, mu) ==
    IF ~prev.res.ok THEN prev
    ELSE IF ~mu.ok THEN [calls |-> k, res |-> mu]
    ELSE [calls |-> k, res |-> Ok(Append(prev.res.val, mu.val[1]))]
GasMus(db, tables, name, energy, k) ==
    IF k = 0 THEN [calls |-> 0, res |-> Ok(<<>>)]
    ELSE GasMuNext(k, GasMus(db, tables, name, energy, k - 1),
                   GasMu(db, tables, name, energy, GasKinds[k]))

MaterialLookups(n) == [i \in 1..n |-> "material_mu_named"]

\* mu_photo += photo * weight; ... ion_pot += ip * weight
AddGas(sums, mus, ip, weight) ==
    [ mu_photo |-> TAdd(sums.mu_photo, TMul(mus[1], TNum(weight))),
      mu_total |-> TAdd(sums.mu_total, TMul(mus[2], TNum(weight))),
      mu_incoh |-> TAdd(sums.mu_incoh, TMul(mus[3], TNum(weight))),
      mu_coh |-> TAdd(sums.mu_coh, TMul(mus[4], TNum(weight))),
      ion_pot |-> TAdd(sums.ion_pot, TMul(TNum(ip), TNum(weight))) ]

\* one round of the loop over the gases
GasStep(ips, gas, total, acc, mus) ==
    [ lookups |-> acc.lookups \o <<"ionization_potential">> \o MaterialLookups(mus.calls),
      res |-> IF ~mus.res.ok THEN mus.res
              ELSE Ok(AddGas(acc.res.val, mus.res.val, PotentialOf(ips, gas.name),
                             FDiv(gas.frac, total))) ]

RECURSIVE GasLoop(_, _, _, _, _, _, _, _)
GasRound(db, tables, ips, gases, energy, total, k, acc) ==
    IF ~acc.res.ok THEN acc
    ELSE GasStep(ips, gases[k], total, acc,
                 GasMus(db, tables, LookupName(gases[k].name), energy, 4))
GasLoop(db, tables, ips, gases, energy, total, k, start) ==
    IF k = 0 THEN start
    ELSE GasRound(db, tables, ips, gases, energy, total, k,
                  GasLoop(db, tables, ips, gases, energy, total, k - 1, start))

NoSums ==
    [mu_photo |-> TNum(0), mu_total |-> TNum(0), mu_incoh |-> TNum(0), mu_coh |-> TNum(0),
     ion_pot |-> TNum(0)]

\* the fluxes computed from the sums, the Compton energy and the settings
Fluxes(sums, compton, settings) ==
    Term("IonChamberFluxes",
         <<sums.mu_photo, sums.mu_total, sums.mu_incoh, sums.mu_coh, sums.ion_pot, compton,
           TNum(settings.volts), TNum(settings.length_cm), TNum(settings.sensitivity),
           TNum(IF settings.both_carriers THEN 2 ELSE 1)>>, 0)
FluxesOf(acc, compton, settings) ==
    [ lookups |-> acc.lookups,
      res |-> IF ~acc.res.ok THEN acc.res ELSE Ok(Fluxes(acc.res.val, compton, settings)) ]

\* self.compton_energies(energy).electron_mean if with_compton, else 0.0
ComptonLookups(settings) == IF settings.with_compton THEN <<"compton_energies">> ELSE <<>>
ComptonEnergy(energy, settings) ==
    IF settings.with_compton THEN Term("electron_mean", <<TNum(energy)>>, 0) ELSE TNum(0)

IonchamberOf(db, tables, ips, gases, energy, settings, total) ==
    IF FractionsRejected(total) THEN [lookups |-> <<>>, res |-> Err("DataError")]
    ELSE FluxesOf(GasLoop(db, tables, ips, gases, energy, total, Len(gases),
                          [lookups |-> ComptonLookups(settings), res |-> Ok(NoSums)]),
                  ComptonEnergy(energy, settings), settings)

ionchamber_fluxes(db, tables, ips, gases, energy, settings) ==
    IonchamberOf(db, tables, ips, gases, energy, settings, gas_total(gases, Len(gases)))

----------------------------------------------------------------------------
(* optics.rs darwin_width (92-230).  An i32 has I32_BITS bits.  A build     *)
(* with overflow checks panics when an i32 operation overflows, a build     *)
(* without them wraps.  Whether the Bragg condition holds and whether the   *)
(* zeta step is positive are comparisons of floats the model does not       *)
(* compute: numerics says how they come out.                                *)

I32_BITS == 8
I32_MIN == -Pow2(I32_BITS - 1)
I32_MAX == Pow2(I32_BITS - 1) - 1
Wraps(n) == n < I32_MIN \/ n > I32_MAX
Wrap32(n) == ((n - I32_MIN) % Pow2(I32_BITS)) + I32_MIN
\* the remainder of Rust's %: it has the sign of the dividend
Rem(a, m) == IF a >= 0 THEN a % m ELSE -((-a) % m)

\* h + k + l
HklSum(h, k, l) ==
    [ overflow |-> Wraps(h + k) \/ Wraps(Wrap32(h + k) + l),
      val |-> Wrap32(Wrap32(h + k) + l) ]
\* h * h + k * k + l * l
SquareSum(h, k, l) ==
    [ overflow |-> \/ Wraps(h * h) \/ Wraps(k * k) \/ Wraps(l * l)
                   \/ Wraps(Wrap32(h * h) + Wrap32(k * k))
                   \/ Wraps(Wrap32(Wrap32(h * h) + Wrap32(k * k)) + Wrap32(l * l)),
      val |-> Wrap32(Wrap32(Wrap32(h * h) + Wrap32(k * k)) + Wrap32(l * l)) ]

\* a variant that tests h % 2 == 1 for an odd index
AllOddPositive(h, k, l) == Rem(h, 2) = 1 /\ Rem(k, 2) = 1 /\ Rem(l, 2) = 1

\* hkl_sum % 4 == 0 && h % 2 == 0 && k % 2 == 0 && l % 2 == 0
AllEvenSumFour(sum, h, k, l) ==
    Rem(sum, 4) = 0 /\ Rem(h, 2) = 0 /\ Rem(k, 2) = 0 /\ Rem(l, 2) = 0
\* h % 2 != 0 && k % 2 != 0 && l % 2 != 0
AllOdd(h, k, l) == Rem(h, 2) # 0 /\ Rem(k, 2) # 0 /\ Rem(l, 2) # 0

\* the structure factor eqr
StructureFactor(sum, h, k, l) ==
    IF AllEvenSumFour(sum, h, k, l) THEN Ok("8.0")
    ELSE IF AllOdd(h, k, l) THEN Ok("4.0 * SQRT_2")
    ELSE Err("DataError")

\* match crystal.to_lowercase().as_str()
Lattice(crystal) ==
    CASE to_lowercase(crystal) = <<"s","i">> -> Ok("5.4309")
      [] to_lowercase(crystal) = <<"g","e">> -> Ok("5.6578")
      [] to_lowercase(crystal) = <<"c">> -> Ok("3.567")
      [] to_lowercase(crystal) = <<"d","i","a","m","o","n","d">> -> Ok("3.567")
      [] OTHER -> Err("DataError")

\* XrayDb::waasmaier_by_ion, as f0 uses it
f0_found(db, ion) ==
    /\ ion \in DOMAIN db.ion_to_waasmaier_idx
    /\ At0(db.data.waasmaier, db.ion_to_waasmaier_idx[ion]).ok

Darwin(eqr, res) == [eqr |-> eqr, res |-> res]

\* from f1_chantler on: the lookups, then the curve
DarwinCurve(db, cols, args, eqr, lattice, squares) ==
    IF ~args.ignore_f1 /\ ~f1_chantler(db, cols, args.crystal, <<args.energy>>).ok
    THEN Darwin(eqr, f1_chantler(db, cols, args.crystal, <<args.energy>>))
    ELSE IF ~args.ignore_f2 /\ ~f2_chantler(db, cols, args.crystal, <<args.energy>>).res.ok
    THEN Darwin(eqr, f2_chantler(db, cols, args.crystal, <<args.energy>>).res)
    ELSE IF ~f0_found(db, args.crystal) THEN Darwin(eqr, Err("UnknownIon"))
    ELSE IF args.numerics = "no_zeta" THEN Darwin(eqr, Ok(<<>>))
    ELSE Darwin(eqr, Ok(<<Term("DarwinWidth", <<TNum(squares), TNum(args.energy)>>, 0)>>))

\* from dspace on
DarwinBragg(db, cols, args, eqr, lattice, squares) ==
    IF squares.overflow /\ args.overflow_checks THEN Darwin(eqr, Err("panic"))
    ELSE IF args.numerics = "no_bragg" THEN Darwin(eqr, Ok(<<>>))
    ELSE DarwinCurve(db, cols, args, eqr, lattice, squares.val)

DarwinLattice(db, cols, args, eqr, lattice) ==
    IF ~eqr.ok THEN Darwin("none", eqr)
    ELSE IF ~lattice.ok THEN Darwin(eqr.val, lattice)
    ELSE DarwinBragg(db, cols, args, eqr.val, lattice.val,
                     SquareSum(args.hkl[1], args.hkl[2], args.hkl[3]))

DarwinSum(db, cols, args, sum) ==
    IF sum.overflow /\ args.overflow_checks THEN Darwin("none", Err("panic"))
    ELSE DarwinLattice(db, cols, args,
                       StructureFactor(sum.val, args.hkl[1], args.hkl[2], args.hkl[3]),
                       Lattice(args.crystal))

darwin_width(db, cols, args) ==
    DarwinSum(db, cols, args, HklSum(args.hkl[1], args.hkl[2], args.hkl[3]))

----------------------------------------------------------------------------
(* optics.rs multilayer_reflectivity (318-446) and coated_reflectivity      *)
(* (462-502).  A usize has USIZE_BITS bits; total_layers - 1 panics in a    *)
(* build with overflow checks when total_layers is 0 and wraps otherwise.   *)
(* An index past the end of a Vec panics in every build.  The complex       *)
(* arithmetic is not computed: a reflectivity is the record of the angle    *)
(* and of the layer indices read for it, in the order of the reads.         *)

USIZE_BITS == 4
USIZE_MAX == Pow2(USIZE_BITS) - 1

\* total_layers - 1
LastLayer(total_layers, overflow_checks) ==
    IF total_layers >= 1 THEN Ok(total_layers - 1)
    ELSE IF overflow_checks THEN Err("panic")
    ELSE Ok(USIZE_MAX)

\* the order of the one key of a composition of one symbol
LayerOrder(f) == CHOOSE o \in IterationOrders(chemparse(f)) : TRUE

\* for i in 0..n_layers: n_vals.push(..xray_delta_beta(stackup[i], density[i], energy)?..)
RECURSIVE LayerIndices(_, _, _, _, _, _)
LayerIndices(db, cols, stackup, density, energy, k) ==
    IF k = 0 THEN Ok(<<>>)
    ELSE IF ~LayerIndices(db, cols, stackup, density, energy, k - 1).ok
    THEN LayerIndices(db, cols, stackup, density, energy, k - 1)
    ELSE IF ~xray_delta_beta(db, cols, stackup[k], density[k], energy, LayerOrder(stackup[k])).ok
    THEN xray_delta_beta(db, cols, stackup[k], density[k], energy, LayerOrder(stackup[k]))
    ELSE Ok(Append(LayerIndices(db, cols, stackup, density, energy, k - 1).val,
                   xray_delta_beta(db, cols, stackup[k], density[k], energy,
                                   LayerOrder(stackup[k])).val))

\* for _ in 0..n_periods: extend_from_slice
RECURSIVE Repeat(_, _)
Repeat(seq, n) == IF n = 0 THEN <<>> ELSE Repeat(seq, n - 1) \o seq

\* the indices of kz, n_all and t_all read for one angle, counted from 0:
\* kz[last], then kz[i], kz[i + 1] for i = last - 1 down to 0, then kz[0]
RECURSIVE RecursionReads(_)
RecursionReads(i) == IF i <= 0 THEN <<>> ELSE <<i - 1, i>> \o RecursionReads(i - 1)
LayerReads(last) == <<last>> \o RecursionReads(last) \o <<0>>
InRange(reads, len) == \A j \in 1..Len(reads) : reads[j] < len

\* the body of the loop over theta
ReflectOne(th, total_layers, polarization, overflow_checks) ==
    IF ~LastLayer(total_layers, overflow_checks).ok THEN Err("panic")
    ELSE IF polarization = "Unpolarized" THEN Err("DataError")
    ELSE IF ~InRange(LayerReads(LastLayer(total_layers, overflow_checks).val), total_layers)
    THEN Err("panic")
    ELSE Ok([theta |-> th,
             reads |-> LayerReads(LastLayer(total_layers, overflow_checks).val)])

\* for &th in theta
RECURSIVE ReflectLoop(_, _, _, _, _)
ReflectLoop(theta, total_layers, polarization, overflow_checks, k) ==
    IF k = 0 THEN Ok(<<>>)
    ELSE IF ~ReflectLoop(theta, total_layers, polarization, overflow_checks, k - 1).ok
    THEN ReflectLoop(theta, total_layers, polarization, overflow_checks, k - 1)
    ELSE IF ~ReflectOne(theta[k], total_layers, polarization, overflow_checks).ok
    THEN ReflectOne(theta[k], total_layers, polarization, overflow_checks)
    ELSE Ok(Append(ReflectLoop(theta, total_layers, polarization, overflow_checks, k - 1).val,
                   ReflectOne(theta[k], total_layers, polarization, overflow_checks).val))

\* from the substrate on
MultilayerSubstrate(db, cols, args, t_all, n_sub) ==
    IF ~n_sub.ok THEN n_sub
    ELSE ReflectLoop(args.theta, Len(t_all), args.polarization, args.overflow_checks,
                     Len(args.theta))

MultilayerLayers(db, cols, args, n_vals) ==
    IF ~n_vals.ok THEN n_vals
    ELSE MultilayerSubstrate(db, cols, args, Repeat(args.thickness, args.n_periods),
                             xray_delta_beta(db, cols, args.substrate, args.substrate_density,
                                             args.energy, LayerOrder(args.substrate)))

multilayer_reflectivity(db, cols, args) ==
    IF Len(args.stackup) # Len(args.thickness) THEN Err("DataError")
    ELSE IF Len(args.stackup) # Len(args.density) THEN Err("DataError")
    ELSE MultilayerLayers(db, cols, args,
                          LayerIndices(db, cols, args.stackup, args.density, args.energy,
                                       Len(args.stackup)))

\* the stackup of a coating and an optional binder (material, thickness, density)
CoatedStackup(args) ==
    IF args.binder = <<>>
    THEN [stackup |-> <<args.coating>>, thickness |-> <<args.coating_thick>>,
          density |-> <<args.coating_density>>]
    ELSE [stackup |-> <<args.coating, args.binder[1].material>>,
          thickness |-> <<args.coating_thick, args.binder[1].thickness>>,
          density |-> <<args.coating_density, args.binder[1].density>>]

coated_reflectivity(db, cols, args) ==
    multilayer_reflectivity(db, cols,
        [stackup |-> CoatedStackup(args).stackup, thickness |-> CoatedStackup(args).thickness,
         substrate |-> args.substrate, theta |-> args.theta, energy |-> args.energy,
         n_periods |-> 1, density |-> CoatedStackup(args).density,
         substrate_density |-> args.substrate_density, polarization |-> args.polarization,
         overflow_checks |-> args.overflow_checks])

----------------------------------------------------------------------------
(* xraydb-generate main.rs (90-130) and db.rs (26-35): the aggregate is     *)
(* written with postcard and zstd and read back.  Bytes are numbers in      *)
(* 0..255.  Of the aggregate the model keeps the elements table with the    *)
(* fields atomic_number (u16), symbol, name (String) and molar_mass (f64,   *)
(* here a bit pattern of F64_BYTES bytes).  postcard writes a u16 and a     *)
(* length as a varint, a String as its length and its bytes, an f64 as its  *)
(* bytes in little-endian order, a Vec as its length and its items, and a   *)
(* struct as its fields in the order of their declaration.  Of zstd the     *)
(* model keeps the frame: the magic number, then blocks, each with a header *)
(* (last block, type, size) and either the bytes themselves (raw) or one    *)
(* byte to repeat (RLE).                                                    *)

F64_BYTES == 2
VARINT_MAX_U16 == 3
ZSTD_MAGIC == <<40, 181, 47, 253>>
MIN_RUN == 3

\* the UTF-8 bytes of the characters the tables hold
Utf8 == [c \in {"N", "O", "e", "n", "o"} |->
            CASE c = "N" -> 78 [] c = "O" -> 79 [] c = "e" -> 101 [] c = "n" -> 110
              [] OTHER -> 111]
CharOfByte(b) == CHOOSE c \in DOMAIN Utf8 : Utf8[c] = b
IsUtf8(b) == \E c \in DOMAIN Utf8 : Utf8[c] = b

RECURSIVE Varint(_)
Varint(n) == IF n < 128 THEN <<n>> ELSE <<(n % 128) + 128>> \o Varint(n \div 128)
RECURSIVE LittleEndian(_, _)
LittleEndian(n, k) == IF k = 0 THEN <<>> ELSE <<n % 256>> \o LittleEndian(n \div 256, k - 1)
SerializeString(str) == Varint(Len(str)) \o [i \in 1..Len(str) |-> Utf8[str[i]]]

\* a variant that writes the name before the symbol
SerializeElementSwapped(rec) ==
    Varint(rec.atomic_number) \o SerializeString(rec.name) \o SerializeString(rec.symbol)
        \o LittleEndian(rec.molar_mass, F64_BYTES)

\* #[derive(Serialize)] struct ElementRecord
SerializeElement(rec) ==
    Varint(rec.atomic_number) \o SerializeString(rec.symbol) \o SerializeString(rec.name)
        \o LittleEndian(rec.molar_mass, F64_BYTES)

RECURSIVE SerializeElements(_, _)
SerializeElements(elements, k) ==
    IF k = 0 THEN <<>> ELSE SerializeElements(elements, k - 1) \o SerializeElement(elements[k])

\* postcard::to_allocvec(&db)
to_allocvec(gdb) == Varint(Len(gdb.elements)) \o SerializeElements(gdb.elements, Len(gdb.elements))

\* a cursor: the value read and the position after it
Read(val, pos) == [ok |-> TRUE, val |-> val, pos |-> pos]
ReadFailed == [ok |-> FALSE, val |-> 0, pos |-> 0]

\* a varint of at most k bytes
RECURSIVE ReadVarint(_, _, _)
VarintMore(b, pos, rest) ==
    IF rest.ok THEN Read((b[pos] - 128) + 128 * rest.val, rest.pos) ELSE ReadFailed
ReadVarint(b, pos, k) ==
    IF pos > Len(b) \/ k = 0 THEN ReadFailed
    ELSE IF b[pos] < 128 THEN Read(b[pos], pos + 1)
    ELSE VarintMore(b, pos, ReadVarint(b, pos + 1, k - 1))
U16Of(r) == IF r.ok /\ r.val > U16_MAX THEN ReadFailed ELSE r
ReadU16(b, pos) == U16Of(ReadVarint(b, pos, VARINT_MAX_U16))

StringOf(b, len) ==
    IF ~len.ok \/ len.pos + len.val - 1 > Len(b) THEN ReadFailed
    ELSE IF \E i \in 0..(len.val - 1) : ~IsUtf8(b[len.pos + i]) THEN ReadFailed
    ELSE Read([i \in 1..len.val |-> CharOfByte(b[len.pos + i - 1])], len.pos + len.val)
ReadString(b, pos) == StringOf(b, ReadVarint(b, pos, VARINT_MAX_U16))

RECURSIVE LittleEndianValue(_, _, _)
LittleEndianValue(b, pos, k) ==
    IF k = 0 THEN 0 ELSE b[pos] + 256 * LittleEndianValue(b, pos + 1, k - 1)
ReadF64(b, pos) ==
    IF pos + F64_BYTES - 1 > Len(b) THEN ReadFailed
    ELSE Read(LittleEndianValue(b, pos, F64_BYTES), pos + F64_BYTES)

\* #[derive(Deserialize)] struct ElementRecord, field by field
ElementMass(b, z, sym, name, mass) ==
    IF ~mass.ok THEN ReadFailed
    ELSE Read([atomic_number |-> z.val, symbol |-> sym.val, name |-> name.val,
               molar_mass |-> mass.val], mass.pos)
ElementName(b, z, sym, name) ==
    IF ~name.ok THEN ReadFailed ELSE ElementMass(b, z, sym, name, ReadF64(b, name.pos))
ElementSymbol(b, z, sym) ==
    IF ~sym.ok THEN ReadFailed ELSE ElementName(b, z, sym, ReadString(b, sym.pos))
ElementNumber(b, z) ==
    IF ~z.ok THEN ReadFailed ELSE ElementSymbol(b, z, ReadString(b, z.pos))
DeserializeElement(b, pos) == ElementNumber(b, ReadU16(b, pos))

RECURSIVE DeserializeElements(_, _, _)
ElementsMore(b, rec, rest) ==
    IF ~rest.ok THEN ReadFailed ELSE Read(<<rec.val>> \o rest.val, rest.pos)
ElementsNext(b, rec, n) ==
    IF ~rec.ok THEN ReadFailed
    ELSE ElementsMore(b, rec, DeserializeElements(b, rec.pos, n - 1))
DeserializeElements(b, pos, n) ==
    IF n = 0 THEN Read(<<>>, pos) ELSE ElementsNext(b, DeserializeElement(b, pos), n)

\* postcard::from_bytes: bytes after the value are not looked at
DatabaseOf(b, len) ==
    IF ~len.ok THEN ReadFailed ELSE DeserializeElements(b, len.pos, len.val)
FromBytesOf(r) == IF r.ok THEN Ok([elements |-> r.val]) ELSE Err("panic")
from_bytes(b) == FromBytesOf(DatabaseOf(b, ReadVarint(b, 1, VARINT_MAX_U16)))

\* the length of the run of equal bytes that starts at pos
RECURSIVE RunLength(_, _)
RunLength(b, pos) ==
    IF pos < Len(b) /\ b[pos + 1] = b[pos] THEN 1 + RunLength(b, pos + 1) ELSE 1
\* the number of bytes from pos on before the next run of MIN_RUN
RECURSIVE LiteralLength(_, _)
LiteralLength(b, pos) ==
    IF pos > Len(b) \/ RunLength(b, pos) >= MIN_RUN THEN 0
    ELSE 1 + LiteralLength(b, pos + 1)
Last(b, pos) == IF pos > Len(b) THEN 1 ELSE 0
RleBlock(b, pos, n) == <<Last(b, pos + n), 1, n, b[pos]>>
RawBlock(b, pos, n) == <<Last(b, pos + n), 0, n>> \o [i \in 1..n |-> b[pos + i - 1]]

RECURSIVE CompressBlocks(_, _)
CompressBlocks(b, pos) ==
    IF pos > Len(b) THEN <<>>
    ELSE IF RunLength(b, pos) >= MIN_RUN
    THEN RleBlock(b, pos, RunLength(b, pos)) \o CompressBlocks(b, pos + RunLength(b, pos))
    ELSE RawBlock(b, pos, LiteralLength(b, pos))
             \o CompressBlocks(b, pos + LiteralLength(b, pos))

\* zstd::encode_all(&serialized[..], 19); an empty input is one empty raw block
encode_all(b) ==
    ZSTD_MAGIC \o (IF b = <<>> THEN <<1, 0, 0>> ELSE CompressBlocks(b, 1))

HasMagic(z) == Len(z) >= Len(ZSTD_MAGIC) /\ \A i \in 1..Len(ZSTD_MAGIC) : z[i] = ZSTD_MAGIC[i]

RECURSIVE DecodeBlocks(_, _)
BlockMore(block, last, rest) ==
    IF last = 1 THEN Ok(block)
    ELSE IF ~rest.ok THEN rest
    ELSE Ok(block \o rest.val)
DecodeBlocks(z, pos) ==
    IF pos + 2 > Len(z) THEN Err("panic")
    ELSE IF z[pos + 1] = 1
    THEN IF pos + 3 > Len(z) THEN Err("panic")
         ELSE BlockMore([i \in 1..z[pos + 2] |-> z[pos + 3]], z[pos],
                        IF z[pos] = 1 THEN Ok(<<>>) ELSE DecodeBlocks(z, pos + 4))
    ELSE IF z[pos + 1] # 0 \/ pos + 2 + z[pos + 2] > Len(z) THEN Err("panic")
    ELSE BlockMore([i \in 1..z[pos + 2] |-> z[pos + 2 + i]], z[pos],
                   IF z[pos] = 1 THEN Ok(<<>>) ELSE DecodeBlocks(z, pos + 3 + z[pos + 2]))

\* zstd::decode_all(&compressed[..]) in the generator, ruzstd's
\* StreamingDecoder and read_to_end in db()
decode_all(z) == IF ~HasMagic(z) THEN Err("panic") ELSE DecodeBlocks(z, Len(ZSTD_MAGIC) + 1)

\* the steps of main from the aggregate on
GenerateVerify(serialized, decompressed) ==
    IF ~decompressed.ok THEN "panic"
    ELSE IF Len(decompressed.val) # Len(serialized) THEN "panic"
    ELSE IF ~from_bytes(decompressed.val).ok THEN "panic"
    ELSE "done"

\* db(): the aggregate the library loads from the file
LoadedFrom(decompressed) == IF decompressed.ok THEN from_bytes(decompressed.val) ELSE decompressed
Loaded(file) == LoadedFrom(decode_all(file))

----------------------------------------------------------------------------
(* xraydb-generate parsers.rs parse_corehole_data (99-185).  A line of a    *)
(* data file is the sequence of its whitespace-separated parts and whether  *)
(* it starts with '#'; a part is a number or a word.  The order in which    *)
(* HashMap::into_values gives the records is an input.                      *)

Num(n) == [num |-> TRUE, n |-> n, word |-> <<>>]
Word(w) == [num |-> FALSE, n |-> 0, word |-> w]
IsNumber(part) == part.num
Skipped(line) == line.hash \/ line.parts = <<>>

\* kk_records.push(CoreWidthRecord { .. }): parse().unwrap() panics on a word
KkRecord(parts) ==
    IF ~IsNumber(parts[1]) \/ parts[1].n > U16_MAX \/ ~IsNumber(parts[4]) THEN Err("panic")
    ELSE Ok([atomic_number |-> parts[1].n, element |-> parts[2].word, edge |-> parts[3].word,
             width |-> parts[4].n])

RECURSIVE ParseKk(_, _)
KkNext(acc, line) ==
    IF ~acc.ok \/ Skipped(line) \/ Len(line.parts) < 4 THEN acc
    ELSE IF ~KkRecord(line.parts).ok THEN KkRecord(line.parts)
    ELSE Ok(Append(acc.val, KkRecord(line.parts).val))
ParseKk(lines, k) == IF k = 0 THEN Ok(<<>>) ELSE KkNext(ParseKk(lines, k - 1), lines[k])

\* for (edge, width) in [("K", kwid), ("L1", l1wid), ("L2", l2wid), ("L3", l3wid)]
KO_EDGES == << <<"K">>, <<"L","1">>, <<"L","2">>, <<"L","3">> >>
KoRecords(parts) ==
    IF ~IsNumber(parts[1]) \/ parts[1].n > U16_MAX
       \/ \E i \in 3..6 : ~IsNumber(parts[i]) THEN Err("panic")
    ELSE Ok([i \in 1..4 |-> [atomic_number |-> parts[1].n, element |-> parts[2].word,
                             edge |-> KO_EDGES[i], width |-> parts[i + 2].n]])

RECURSIVE ParseKo(_, _)
KoNext(acc, line) ==
    IF ~acc.ok \/ Skipped(line) \/ Len(line.parts) < 6 THEN acc
    ELSE IF ~KoRecords(line.parts).ok THEN KoRecords(line.parts)
    ELSE Ok(acc.val \o KoRecords(line.parts).val)
ParseKo(lines, k) == IF k = 0 THEN Ok(<<>>) ELSE KoNext(ParseKo(lines, k - 1), lines[k])

\* a variant that keeps the record a key already has
InsertIfAbsent(map, rec) ==
    IF <<rec.atomic_number, rec.edge>> \in DOMAIN map THEN map
    ELSE Insert(map, <<rec.atomic_number, rec.edge>>, rec)

\* corelevel.insert((atomic_number, edge), CoreWidthRecord { .. })
InsertWidth(map, rec) == Insert(map, <<rec.atomic_number, rec.edge>>, rec)

\* the inserts of the records in their order, Keski-Rahkonen-Krause first
RECURSIVE InsertAll(_, _, _)
InsertAll(map, records, k) ==
    IF k = 0 THEN map ELSE InsertWidth(InsertAll(map, records, k - 1), records[k])

\* str::cmp: the bytes of the characters, the shorter of two equal starts first
ByteOfChar(c) ==
    CASE c = "1" -> 49 [] c = "2" -> 50 [] c = "3" -> 51 [] c = "5" -> 53
      [] c = "K" -> 75 [] c = "L" -> 76 [] c = "M" -> 77 [] OTHER -> 0
RECURSIVE StrLess(_, _, _)
StrLess(a, b, i) ==
    IF i > Len(b) THEN FALSE
    ELSE IF i > Len(a) THEN TRUE
    ELSE IF ByteOfChar(a[i]) # ByteOfChar(b[i]) THEN ByteOfChar(a[i]) < ByteOfChar(b[i])
    ELSE StrLess(a, b, i + 1)

\* a.atomic_number.cmp(&b.atomic_number).then_with(|| a.edge.cmp(&b.edge)) is Less
WidthLess(a, b) ==
    \/ a.atomic_number < b.atomic_number
    \/ a.atomic_number = b.atomic_number /\ StrLess(a.edge, b.edge, 1)

\* sort_by: a stable sort
RECURSIVE InsertSorted(_, _, _)
InsertSorted(sorted, rec, i) ==
    IF i > Len(sorted) THEN Append(sorted, rec)
    ELSE IF WidthLess(rec, sorted[i])
    THEN SubSeq(sorted, 1, i - 1) \o <<rec>> \o SubSeq(sorted, i, Len(sorted))
    ELSE InsertSorted(sorted, rec, i + 1)
RECURSIVE SortBy(_, _)
SortBy(records, k) ==
    IF k = 0 THEN <<>> ELSE InsertSorted(SortBy(records, k - 1), records[k], 1)

\* The order in which a HashMap hands out its entries is not specified: order
\* names one of three orders of the keys, ascending, descending, and
\* ascending from the second key on with the first at the end
KeyLess(a, b) == a[1] < b[1] \/ (a[1] = b[1] /\ StrLess(a[2], b[2], 1))
RECURSIVE Ascending(_)
Ascending(S) ==
    IF S = {} THEN <<>>
    ELSE <<CHOOSE k \in S : \A o \in S \ {k} : KeyLess(k, o)>>
             \o Ascending(S \ {CHOOSE k \in S : \A o \in S \ {k} : KeyLess(k, o)})
Reverse(seq) == [i \in 1..Len(seq) |-> seq[Len(seq) + 1 - i]]
Rotate(seq) == IF seq = <<>> THEN seq ELSE Tail(seq) \o <<Head(seq)>>
HashOrder(order, S) ==
    CASE order = "ascending" -> Ascending(S)
      [] order = "descending" -> Reverse(Ascending(S))
      [] OTHER -> Rotate(Ascending(S))

\* corelevel.into_values().collect(): the values in the order of the keys
IntoValues(map, keys) == [i \in 1..Len(keys) |-> map[keys[i]]]

Corehole(kk, ko, corelevel) == Ok([kk |-> kk, ko |-> ko, corelevel |-> corelevel])

ParsedCorehole(kk, ko, order) ==
    IF ~kk.ok THEN kk
    ELSE IF ~ko.ok THEN ko
    ELSE Corehole(kk.val, ko.val,
             SortBy(IntoValues(InsertAll(InsertAll(EmptyMap, kk.val, Len(kk.val)),
                                         ko.val, Len(ko.val)),
                               HashOrder(order,
                                         DOMAIN InsertAll(InsertAll(EmptyMap, kk.val, Len(kk.val)),
                                                          ko.val, Len(ko.val)))),
                    Cardinality(DOMAIN InsertAll(InsertAll(EmptyMap, kk.val, Len(kk.val)),
                                                 ko.val, Len(ko.val)))))

parse_corehole_data(kk_lines, ko_lines, order) ==
    ParsedCorehole(ParseKk(kk_lines, Len(kk_lines)), ParseKo(ko_lines, Len(ko_lines)), order)

----------------------------------------------------------------------------
(* Values of the variables a specification does not use *)

\* Option: None is <<>>, Some(v) is <<v>>
None == <<>>
Some(v) == <<v>>
NoDb == None

ConcIdle ==
    /\ once = "incomplete" /\ DATABASE = NoDb /\ blob = ValidBlob
    /\ pc = <<>> /\ local = <<>> /\ handle = <<>> /\ lookups = <<>> /\ inits = 0
ResolveIdle == rid = <<>> /\ rres = Err("idle") /\ rpc = "idle"
ChemIdle == formula = <<>> /\ ast = [has |-> FALSE, forest |-> <<>>] /\ cres = Err("idle") /\ cpc = "idle"
InterpIdle == ix = 0 /\ ixp = <<>> /\ ifp = <<>> /\ ires = Err("idle") /\ ipc = "idle"
CallIdle == input = <<>> /\ output = Err("idle") /\ step = "idle"

----------------------------------------------------------------------------
(* The threads of test_concurrent_db_new_and_lookup: each calls            *)
(* XrayDb::new(), i.e. DATABASE.get_or_init(closure), then makes lookups.  *)
(* get_or_init runs the closure under the cell's Once: one thread at a     *)
(* time, the others wait; a panic in the closure leaves the cell empty     *)
(* and (call_once_force) lets a later caller run the closure again.        *)

NThreads == 2
MaxLookups == 2
Threads == 1..NThreads

\* the identifiers the test looks up: a symbol, a number, a name
LookupIds == { <<"N","e">>, <<"8">>, <<"n","e","o","n">> }

NoLookups == [n |-> 0, allOk |-> TRUE, last |-> <<>>]

\* a panic raised by .expect(msg)
Panic(msg) == [how |-> "panic", msg |-> msg]

\* get_or_init without the Once: any caller that finds the cell empty runs the closure
EnterUnguarded(t) ==
    /\ pc[t] \in {"start", "waiting"}
    /\ IF once = "complete"
       THEN /\ pc' = [pc EXCEPT ![t] = "have"]
            /\ handle' = [handle EXCEPT ![t] = TRUE]
            /\ once' = once
       ELSE /\ once' = "running"
            /\ pc' = [pc EXCEPT ![t] = "decompress"]
            /\ handle' = handle
    /\ UNCHANGED <<DATABASE, blob, local, lookups, inits, resolveVars, chemVars, interpVars, callVars>>

\* db(): DATABASE.get_or_init(..) up to the point where the closure starts
Enter(t) ==
    /\ pc[t] \in {"start", "waiting"}
    /\ \/ /\ once = "complete"
          /\ pc' = [pc EXCEPT ![t] = "have"]
          /\ handle' = [handle EXCEPT ![t] = TRUE]
          /\ once' = once
       \/ /\ once \in {"incomplete", "poisoned"}
          /\ once' = "running"
          /\ pc' = [pc EXCEPT ![t] = "decompress"]
          /\ handle' = handle
       \/ /\ once = "running" /\ pc[t] = "start"
          /\ pc' = [pc EXCEPT ![t] = "waiting"]
          /\ UNCHANGED <<once, handle>>
    /\ UNCHANGED <<DATABASE, blob, local, lookups, inits, resolveVars, chemVars, interpVars, callVars>>

\* the closure panics: the Once is poisoned, the cell stays empty, new() does not return
Fail(t, msg) ==
    /\ once' = "poisoned"
    /\ pc' = [pc EXCEPT ![t] = "failed"]
    /\ local' = [local EXCEPT ![t] = Panic(msg)]

\* db.rs 27-31
DecompressStep(t) ==
    /\ pc[t] = "decompress"
    /\ LET r == Decompress(blob)
       IN IF r.ok
          THEN /\ local' = [local EXCEPT ![t] = r.val]
               /\ pc' = [pc EXCEPT ![t] = "deserialize"]
               /\ once' = once
          ELSE Fail(t, "failed to decompress data")
    /\ UNCHANGED <<DATABASE, blob, handle, lookups, inits, resolveVars, chemVars, interpVars, callVars>>

\* db.rs 34-35
DeserializeStep(t) ==
    /\ pc[t] = "deserialize"
    /\ LET r == Deserialize(local[t])
       IN IF r.ok
          THEN /\ local' = [local EXCEPT ![t] = r.val]
               /\ pc' = [pc EXCEPT ![t] = "index"]
               /\ once' = once
          ELSE Fail(t, "failed to deserialize data")
    /\ UNCHANGED <<DATABASE, blob, handle, lookups, inits, resolveVars, chemVars, interpVars, callVars>>

\* db.rs 37-84
IndexStep(t) ==
    /\ pc[t] = "index"
    /\ local' = [local EXCEPT ![t] = BuildIndices(local[t])]
    /\ pc' = [pc EXCEPT ![t] = "store"]
    /\ UNCHANGED <<once, DATABASE, blob, handle, lookups, inits, resolveVars, chemVars, interpVars, callVars>>

\* the closure has returned: the cell's slot is written ...
StoreStep(t) ==
    /\ pc[t] = "store"
    /\ DATABASE' = Some(local[t])
    /\ inits' = inits + 1
    /\ pc' = [pc EXCEPT ![t] = "complete"]
    /\ UNCHANGED <<once, blob, local, handle, lookups, resolveVars, chemVars, interpVars, callVars>>

\* ... then the Once is marked complete and new() returns XrayDb { db }
CompleteStep(t) ==
    /\ pc[t] = "complete"
    /\ once' = "complete"
    /\ pc' = [pc EXCEPT ![t] = "have"]
    /\ handle' = [handle EXCEPT ![t] = TRUE]
    /\ UNCHANGED <<DATABASE, blob, local, lookups, inits, resolveVars, chemVars, interpVars, callVars>>

\* the public operations take &self and read through the shared reference
PublicOps == {"atomic_number", "symbol"}
CallOp(op, db, id) == IF op = "symbol" THEN symbol(db, id) ELSE atomic_number(db, id)

Recorded(l, op, id, r) ==
    [n |-> l.n + 1, allOk |-> l.allOk /\ r.ok, last |-> <<op, id, r>>]

\* a lookup that memoises the lowercased identifier in the shared map
LookupMemoising(t) ==
    /\ pc[t] = "have" /\ lookups[t].n < MaxLookups
    /\ \E op \in PublicOps, id \in LookupIds :
         LET db == DATABASE[1]
             r == CallOp(op, db, id)
         IN /\ lookups' = [lookups EXCEPT ![t] = Recorded(lookups[t], op, id, r)]
            /\ DATABASE' = Some([db EXCEPT !.name_to_z = Insert(@, to_lowercase(id), 0)])
    /\ UNCHANGED <<once, blob, pc, local, handle, inits, resolveVars, chemVars, interpVars, callVars>>

Lookup(t) ==
    /\ pc[t] = "have" /\ lookups[t].n < MaxLookups
    /\ \E op \in PublicOps, id \in LookupIds :
         lookups' = [lookups EXCEPT ![t] =
                        Recorded(lookups[t], op, id, CallOp(op, DATABASE[1], id))]
    /\ UNCHANGED <<once, DATABASE, blob, pc, local, handle, inits, resolveVars, chemVars, interpVars, callVars>>

Init ==
    /\ once = "incomplete" /\ DATABASE = NoDb /\ blob \in Blobs
    /\ pc = [t \in Threads |-> "start"]
    /\ local = [t \in Threads |-> <<>>]
    /\ handle = [t \in Threads |-> FALSE]
    /\ lookups = [t \in Threads |-> NoLookups]
    /\ inits = 0
    /\ ResolveIdle /\ ChemIdle /\ InterpIdle /\ CallIdle

Next ==
    \E t \in Threads :
        \/ Enter(t)
        \/ DecompressStep(t)
        \/ DeserializeStep(t)
        \/ IndexStep(t)
        \/ StoreStep(t)
        \/ CompleteStep(t)
        \/ Lookup(t)

Spec == Init /\ [][Next]_vars

----------------------------------------------------------------------------
(* Specification SpecResolve: one call of resolve_element on the built     *)
(* database, for every identifier of at most MaxIdLen characters.          *)

MaxIdLen == 4
IdChars == {"N", "n", "E", "e", "O", "o", "0", "1", "7", "+"}
Ids(n) == UNION { [1..k -> IdChars] : k \in 0..n }

\* the database every handle refers to once db() has returned
BuiltDb == BuildIndices(EmbeddedData)

ResolveInit ==
    /\ rid \in Ids(MaxIdLen) /\ rres = Err("idle") /\ rpc = "call"
    /\ ConcIdle /\ ChemIdle /\ InterpIdle /\ CallIdle

ResolveCall ==
    /\ rpc = "call"
    /\ rres' = atomic_number(BuiltDb, rid)
    /\ rpc' = "done"
    /\ UNCHANGED <<rid, concVars, chemVars, interpVars, callVars>>

ResolveNext == ResolveCall

SpecResolve == ResolveInit /\ [][ResolveNext]_vars

----------------------------------------------------------------------------
(* C1 *)

\* An unsigned integer literal: an optional '+' and one or more digits
LiteralBody(id) == IF Len(id) > 0 /\ id[1] = "+" THEN SubSeq(id, 2, Len(id)) ELSE id
IsUnsignedLiteral(id) ==
    /\ Len(LiteralBody(id)) > 0
    /\ \A i \in 1..Len(LiteralBody(id)) : is_ascii_digit(LiteralBody(id)[i])
RECURSIVE Pow10(_)
Pow10(n) == IF n = 0 THEN 1 ELSE 10 * Pow10(n - 1)
RECURSIVE PositionalSum(_, _)
PositionalSum(b, i) ==
    IF i > Len(b) THEN 0 ELSE DigitVal(b[i]) * Pow10(Len(b) - i) + PositionalSum(b, i + 1)
LiteralValue(id) == PositionalSum(LiteralBody(id), 1)

ElementRows == { EmbeddedData.elements[i] : i \in 1..Len(EmbeddedData.elements) }
ZOf(rows) == (CHOOSE e \in rows : TRUE).atomic_number

\* the fixed chain, read off the element records themselves
ChainResult(id) ==
    LET byZ == { e \in ElementRows : IsUnsignedLiteral(id) /\ e.atomic_number = LiteralValue(id) }
        bySym == { e \in ElementRows : e.symbol = id }
        bySymLower == { e \in ElementRows : to_lowercase(e.symbol) = to_lowercase(id) }
        byName == { e \in ElementRows : e.name = id }
        byNameLower == { e \in ElementRows : to_lowercase(e.name) = to_lowercase(id) }
    IN IF byZ # {} THEN Ok(ZOf(byZ))
       ELSE IF bySym # {} THEN Ok(ZOf(bySym))
       ELSE IF bySymLower # {} THEN Ok(ZOf(bySymLower))
       ELSE IF byName # {} THEN Ok(ZOf(byName))
       ELSE IF byNameLower # {} THEN Ok(ZOf(byNameLower))
       ELSE Err("UnknownElement")

\* C1: resolve_element / atomic_number returns the result of the first matching
\* step of the chain (numeric Z of an existing element, exact symbol, lowercase
\* symbol, exact name, lowercase name) and UnknownElement when no step matches.
C1_ResolveChain == rpc = "done" => rres = ChainResult(rid)

\* "NEON" matches only the last step (lowercase name); "0" matches none
C1_Witness ==
    /\ rpc = "done"
    /\ \/ rid = <<"N","E","O","N">> /\ rres = Ok(10)
       \/ rid = <<"0">> /\ rres = Err("UnknownElement")

----------------------------------------------------------------------------
(* One call of chemparse.  Three families of inputs:                       *)
(*   SpecChem      every string of at most MaxFreeLen characters           *)
(*   SpecPairs     A n B for all known symbols A, B and count texts n      *)
(*   SpecFormulas  every formula of the grammar with at most MaxNodes      *)
(*                 symbols and groups, and the formulas of the unit tests  *)

NoForest == [has |-> FALSE, forest |-> <<>>]
Forest(f) == [has |-> TRUE, forest |-> f]

ChemCall ==
    /\ cpc = "call"
    /\ cres' = chemparse(formula)
    /\ cpc' = "done"
    /\ UNCHANGED <<formula, ast, concVars, resolveVars, interpVars, callVars>>

ChemNext == ChemCall

MaxFreeLen == 5
TAB == "\t"
FreeChars == {"H", "E", "e", "2", ".", "(", ")", " ", TAB, "-"}
FreeStrings(n) == UNION { [1..k -> FreeChars] : k \in 0..n }

ChemInit ==
    /\ formula \in FreeStrings(MaxFreeLen) /\ ast = NoForest /\ cres = Err("idle") /\ cpc = "call"
    /\ ConcIdle /\ ResolveIdle /\ InterpIdle /\ CallIdle

SpecChem == ChemInit /\ [][ChemNext]_vars

\* the grammar (symbol count? | '(' sequence ')' count?)* as trees
Leaf(sym, cnt) == [kind |-> "symbol", sym |-> sym, body |-> <<>>, cnt |-> cnt]
Group(body, cnt) == [kind |-> "group", sym |-> <<>>, body |-> body, cnt |-> cnt]

RECURSIVE Render(_)
Render(forest) ==
    IF forest = <<>> THEN <<>>
    ELSE LET it == Head(forest)
         IN (IF it.kind = "symbol" THEN it.sym \o it.cnt
             ELSE <<"(">> \o Render(it.body) \o <<")">> \o it.cnt)
            \o Render(Tail(forest))

\* count texts in integer and fractional form
CountForms == { <<"2">>, <<"1","2">>, <<"2",".","5">>, <<".","5">>, <<"3",".">> }

PairInit ==
    /\ \E A \in ELEMENTS, B \in ELEMENTS, n \in CountForms :
          /\ ast = Forest(<<Leaf(A, n), Leaf(B, <<>>)>>)
          /\ formula = A \o n \o B
    /\ cres = Err("idle") /\ cpc = "call"
    /\ ConcIdle /\ ResolveIdle /\ InterpIdle /\ CallIdle

SpecPairs == PairInit /\ [][ChemNext]_vars

MaxNodes == 3
GrammarSymbols == { <<"H">>, <<"D">>, <<"E","r">> }
GrammarCounts == { <<>>, <<"2">>, <<".","5">> }

RECURSIVE Forests(_)
RECURSIVE Trees(_)
Forests(n) ==
    IF n = 0 THEN { <<>> }
    ELSE UNION { { <<t>> \o f : t \in Trees(k), f \in Forests(n - k) } : k \in 1..n }
Trees(k) ==
    (IF k = 1 THEN { Leaf(sy, c) : sy \in GrammarSymbols, c \in GrammarCounts } ELSE {})
    \cup { Group(f, c) : f \in Forests(k - 1), c \in GrammarCounts }

\* Mn(SO4)2(H2O)7 and D2O of test_nested_parens and test_deuterium
TestForests ==
    { << Leaf(<<"M","n">>, <<>>),
         Group(<< Leaf(<<"S">>, <<>>), Leaf(<<"O">>, <<"4">>) >>, <<"2">>),
         Group(<< Leaf(<<"H">>, <<"2">>), Leaf(<<"O">>, <<>>) >>, <<"7">>) >>,
      << Leaf(<<"D">>, <<"2">>), Leaf(<<"O">>, <<>>) >> }

GrammarForests(m) == TestForests \cup UNION { Forests(n) : n \in 0..m }

FormulaInit ==
    /\ \E f \in GrammarForests(MaxNodes) : ast = Forest(f) /\ formula = Render(f)
    /\ cres = Err("idle") /\ cpc = "call"
    /\ ConcIdle /\ ResolveIdle /\ InterpIdle /\ CallIdle

SpecFormulas == FormulaInit /\ [][ChemNext]_vars

----------------------------------------------------------------------------
(* Specification SpecInterp: one call of interp_one, for every table of at  *)
(* most MaxKnots non-decreasing knots.  The values are floats in units of   *)
(* 2^-FracBits: the knots -1, 0, 0.875, 1, 2 (0.875 is the float just below *)
(* 1), the queries also -2, 0.5, 1.75, 3 (1.75 is the float just below 2)   *)
(* and the table values -1, 0, 1, 10.                                       *)

MaxKnots == 3
KnotValues == {-16, 0, 14, 16, 32}
QueryValues == KnotValues \cup {-32, 8, 28, 48}
TableValues == {-16, 0, 16, 160}

IsSorted(xp) == \A i \in 1..(Len(xp) - 1) : xp[i] <= xp[i + 1]
KnotTables(m) == { xp \in UNION { [1..n -> KnotValues] : n \in 1..m } : IsSorted(xp) }

InterpInit ==
    /\ ixp \in KnotTables(MaxKnots)
    /\ ifp \in [1..Len(ixp) -> TableValues]
    /\ ix \in QueryValues
    /\ ires = Err("idle")
    /\ ipc = "call"
    /\ ConcIdle /\ ResolveIdle /\ ChemIdle /\ CallIdle

InterpCall ==
    /\ ipc = "call"
    /\ ires' = interp_one(ix, ixp, ifp)
    /\ ipc' = "done"
    /\ UNCHANGED <<ix, ixp, ifp, concVars, resolveVars, chemVars, callVars>>

InterpNext == InterpCall

SpecInterp == InterpInit /\ [][InterpNext]_vars

----------------------------------------------------------------------------
(* Specification SpecChantler: one call of interp_loglog, f2_chantler or    *)
(* mu_chantler.  interp_loglog is public and takes any numbers; the tables  *)
(* of the database have increasing positive energies and non-negative f2    *)
(* and mu columns.  Queries are at most MaxEnergies numbers, among them     *)
(* negative ones, 0.0, one below 1e-99 and one above 1e6.                   *)

MaxEnergies == 2
QueryNumbers == {-3, 0, 1, 3, 4, 5, 7}
EnergyArrays(n) == UNION { [1..k -> QueryNumbers] : k \in 0..n }

\* the columns the database may hold for an element
ChantlerRows ==
    { [energy |-> <<3, 5>>, f1 |-> <<-16, 14>>, f2 |-> <<0, 4>>, mu_total |-> <<5, 3>>,
       mu_photo |-> <<4, 1>>, mu_incoh |-> <<2, 0>>],
      [energy |-> <<3, 4, 7>>, f1 |-> <<0, -32, 16>>, f2 |-> <<1, 3, 3>>,
       mu_total |-> <<6, 4, 3>>, mu_photo |-> <<6, 4, 0>>, mu_incoh |-> <<0, 1, 3>>],
      [energy |-> <<4>>, f1 |-> <<8>>, f2 |-> <<0>>, mu_total |-> <<3>>,
       mu_photo |-> <<3>>, mu_incoh |-> <<1>>] }

ChantlerElements == { <<"N">>, <<"8">>, <<"n","e","o","n">>, <<"N","o">>, <<"X">> }

\* arguments of interp_loglog: knots in increasing order, any values
LoglogKnots == { <<0, 3>>, <<1, 4>>, <<3, 5>>, <<-3, 3, 5>>, <<4>> }
LoglogValues == {-3, 0, 1, 4}

ChantlerInit ==
    /\ \/ \E x \in EnergyArrays(MaxEnergies), xp \in LoglogKnots :
             \E fp \in [1..Len(xp) -> LoglogValues] :
                input = [op |-> "interp_loglog", x |-> x, xp |-> xp, fp |-> fp]
       \/ \E el \in ChantlerElements, row \in ChantlerRows, en \in EnergyArrays(MaxEnergies) :
             \/ input = [op |-> "f2_chantler", kind |-> "none", element |-> el,
                         row |-> row, energies |-> en]
             \/ \E k \in ChantlerKinds :
                   input = [op |-> "mu_chantler", kind |-> k, element |-> el,
                            row |-> row, energies |-> en]
    /\ output = Err("idle") /\ step = "call"
    /\ ConcIdle /\ ResolveIdle /\ ChemIdle /\ InterpIdle

InterpLoglogCall ==
    /\ step = "call" /\ input.op = "interp_loglog"
    /\ output' = interp_loglog(input.x, input.xp, input.fp)
    /\ step' = "done"
    /\ UNCHANGED <<input, concVars, resolveVars, chemVars, interpVars>>

F2ChantlerCall ==
    /\ step = "call" /\ input.op = "f2_chantler"
    /\ output' = f2_chantler(BuiltDb, input.row, input.element, input.energies)
    /\ step' = "done"
    /\ UNCHANGED <<input, concVars, resolveVars, chemVars, interpVars>>

MuChantlerCall ==
    /\ step = "call" /\ input.op = "mu_chantler"
    /\ output' = mu_chantler(BuiltDb, input.row, input.element, input.energies, input.kind)
    /\ step' = "done"
    /\ UNCHANGED <<input, concVars, resolveVars, chemVars, interpVars>>

ChantlerNext == InterpLoglogCall \/ F2ChantlerCall \/ MuChantlerCall

SpecChantler == ChantlerInit /\ [][ChantlerNext]_vars

----------------------------------------------------------------------------
(* Specification SpecCross: one call of mu_elam, f1_chantler, f2_chantler,  *)
(* mu_chantler or material_mu, for energy arrays of up to MaxEnergies       *)
(* entries.                                                                 *)

ElamEnergies == {-3, 0, 1, 2, 3, 5, 6, 7}
ElamArrays(n) == UNION { [1..k -> ElamEnergies] : k \in 0..n }

\* the rows the database may hold for an element: logarithms, as floats
ElamTables ==
    { [ photo |-> [log_energy |-> <<32, 64, 96>>, log_photoabsorption |-> <<48, 16, -16>>,
                   log_photoabsorption_spline |-> <<0, 16, 0>>],
        scatter |-> [log_energy |-> <<32, 96>>,
                     log_coherent_scatter |-> <<16, 0>>,
                     log_coherent_scatter_spline |-> <<0, 0>>,
                     log_incoherent_scatter |-> <<-16, 16>>,
                     log_incoherent_scatter_spline |-> <<8, -8>>] ],
      [ photo |-> [log_energy |-> <<48, 80>>, log_photoabsorption |-> <<32, 0>>,
                   log_photoabsorption_spline |-> <<-16, 16>>],
        scatter |-> [log_energy |-> <<32, 48, 80, 96>>,
                     log_coherent_scatter |-> <<16, 14, 8, 0>>,
                     log_coherent_scatter_spline |-> <<0, 16, -16, 0>>,
                     log_incoherent_scatter |-> <<0, 8, 14, 16>>,
                     log_incoherent_scatter_spline |-> <<0, 0, 8, 0>>] ] }

\* formulas for material_mu: of symbols with Elam data (N, O, Ne), of a
\* symbol with a record and no Elam data (No), of symbols with no record
\* (Unh, Fe in this database), and formulas chemparse rejects
MaterialFormulas ==
    { <<"N","2","O">>, <<"N","e","N","O","3">>, <<"N"," ","O">>, <<"N","O","0">>,
      <<"N","0">>, <<"N","U","n","h">>, <<"U","n","h">>, <<"N","o","N">>,
      <<"F","e","O">>, <<"n","2">>, <<>> }
Densities == {1, 2}
MaterialEnergies == {0, 3, 7}
MaterialArrays(n) == UNION { [1..k -> MaterialEnergies] : k \in 0..n }

\* every element with Elam data has the rows of tabs
ElamData(tabs) == [sym \in { <<"N">>, <<"O">>, <<"N","e">> } |-> tabs]

CrossInit ==
    /\ \/ \E el \in ChantlerElements, tabs \in ElamTables, en \in ElamArrays(MaxEnergies),
             k \in CrossSectionKinds :
             input = [op |-> "mu_elam", kind |-> k, element |-> el, row |-> tabs,
                      energies |-> en]
       \/ \E el \in ChantlerElements, row \in ChantlerRows, en \in EnergyArrays(MaxEnergies) :
             input = [op |-> "f1_chantler", kind |-> "none", element |-> el, row |-> row,
                      energies |-> en]
       \/ \E el \in ChantlerElements, row \in ChantlerRows, en \in EnergyArrays(MaxEnergies) :
             \/ input = [op |-> "f2_chantler", kind |-> "none", element |-> el,
                         row |-> row, energies |-> en]
             \/ \E k \in ChantlerKinds :
                   input = [op |-> "mu_chantler", kind |-> k, element |-> el,
                            row |-> row, energies |-> en]
       \/ \E f \in MaterialFormulas, tabs \in ElamTables, en \in MaterialArrays(MaxEnergies),
             k \in CrossSectionKinds, rho \in Densities :
             \E o1 \in IterationOrders(chemparse(f)), o2 \in IterationOrders(chemparse(f)) :
                input = [op |-> "material_mu", kind |-> k, formula |-> f, row |-> tabs,
                         density |-> rho, energies |-> en, order |-> o1, frac_order |-> o2]
    /\ output = Err("idle") /\ step = "call"
    /\ ConcIdle /\ ResolveIdle /\ ChemIdle /\ InterpIdle

MuElamCall ==
    /\ step = "call" /\ input.op = "mu_elam"
    /\ output' = mu_elam(BuiltDb, input.row, input.element, input.energies, input.kind)
    /\ step' = "done"
    /\ UNCHANGED <<input, concVars, resolveVars, chemVars, interpVars>>

F1ChantlerCall ==
    /\ step = "call" /\ input.op = "f1_chantler"
    /\ output' = f1_chantler(BuiltDb, input.row, input.element, input.energies)
    /\ step' = "done"
    /\ UNCHANGED <<input, concVars, resolveVars, chemVars, interpVars>>

MaterialMuCall ==
    /\ step = "call" /\ input.op = "material_mu"
    /\ output' = material_mu(BuiltDb, ElamData(input.row), input.formula, input.density,
                             input.energies, input.kind, input.order, input.frac_order)
    /\ step' = "done"
    /\ UNCHANGED <<input, concVars, resolveVars, chemVars, interpVars>>

CrossNext == MuElamCall \/ F1ChantlerCall \/ F2ChantlerCall \/ MuChantlerCall \/ MaterialMuCall

SpecCross == CrossInit /\ [][CrossNext]_vars

----------------------------------------------------------------------------
(* Specification SpecMaterials: one call of find_material, material_mu,     *)
(* material_mu_named or xray_delta_beta.                                    *)

\* names of the registry in several cases, formulas of the registry, formulas
\* that are not in it, and names that are neither
MaterialNames ==
    { <<"n","i","t","r","o","g","e","n">>, <<"N","i","t","r","o","g","e","n">>,
      <<"N","E","O","N">>, <<"o","x","y","g","e","n">>, <<"n">>, <<"N">>, <<"n","e">>,
      <<"O">>, <<"b","n">>, <<"B","N">>,
      <<"B","o","r","o","n"," ","N","i","t","r","i","d","e">>,
      <<"c","u","b","i","c"," ","b","o","r","o","n"," ","n","i","t","r","i","d","e">>,
      <<"p","o","l","y","i","m","i","d","e">>, <<"c","2","2","h","1","0","n","2","o","5">>,
      <<"N","2","O">>, <<"N","O">>, <<"N","U","n","h">>,
      <<"u","n","o","b","t","a","i","n","i","u","m">>, <<"U","n","h">>, <<>>,
      <<" ","n","e","o","n">> }

OptionalDensities == { NoDensity } \cup { <<rho>> : rho \in Densities }

\* the names whose formula has at most two symbols
NamedInputs ==
    { name \in MaterialNames :
        chemparse(FormulaUsed(name)).ok =>
            Cardinality(DOMAIN chemparse(FormulaUsed(name)).val) <= 2 }

MaterialsInit ==
    /\ \/ \E name \in MaterialNames : input = [op |-> "find_material", name |-> name]
       \/ \E f \in MaterialFormulas, tabs \in ElamTables, en \in MaterialArrays(1),
             k \in CrossSectionKinds :
             \E o1 \in IterationOrders(chemparse(f)), o2 \in IterationOrders(chemparse(f)) :
                input = [op |-> "material_mu", kind |-> k, formula |-> f, row |-> tabs,
                         density |-> 1, energies |-> en, order |-> o1, frac_order |-> o2]
       \/ \E name \in NamedInputs, tabs \in ElamTables, en \in MaterialArrays(1),
             k \in CrossSectionKinds, rho \in OptionalDensities :
             \E o1 \in IterationOrders(chemparse(FormulaUsed(name))),
                o2 \in IterationOrders(chemparse(FormulaUsed(name))) :
                input = [op |-> "material_mu_named", kind |-> k, name |-> name, row |-> tabs,
                         density |-> rho, energies |-> en,
                         orders |-> [order |-> o1, frac_order |-> o2]]
       \/ \E f \in MaterialFormulas, row \in ChantlerRows, e \in QueryNumbers,
             rho \in Densities :
             \E o1 \in IterationOrders(chemparse(f)) :
                input = [op |-> "xray_delta_beta", formula |-> f, row |-> row,
                         density |-> rho, energy |-> e, order |-> o1]
    /\ output = Err("idle") /\ step = "call"
    /\ ConcIdle /\ ResolveIdle /\ ChemIdle /\ InterpIdle

FindMaterialCall ==
    /\ step = "call" /\ input.op = "find_material"
    /\ output' = find_material(input.name)
    /\ step' = "done"
    /\ UNCHANGED <<input, concVars, resolveVars, chemVars, interpVars>>

MaterialMuNamedCall ==
    /\ step = "call" /\ input.op = "material_mu_named"
    /\ output' = material_mu_named(BuiltDb, ElamData(input.row), input.name, input.energies,
                                   input.kind, input.density, input.orders)
    /\ step' = "done"
    /\ UNCHANGED <<input, concVars, resolveVars, chemVars, interpVars>>

XrayDeltaBetaCall ==
    /\ step = "call" /\ input.op = "xray_delta_beta"
    /\ output' = xray_delta_beta(BuiltDb, input.row, input.formula, input.density,
                                 input.energy, input.order)
    /\ step' = "done"
    /\ UNCHANGED <<input, concVars, resolveVars, chemVars, interpVars>>

MaterialsNext == FindMaterialCall \/ MaterialMuCall \/ MaterialMuNamedCall \/ XrayDeltaBetaCall

SpecMaterials == MaterialsInit /\ [][MaterialsNext]_vars

----------------------------------------------------------------------------
(* Specification SpecEdges: one call of guess_edge, for every table of at   *)
(* most MaxLevels levels.                                                   *)

MaxLevels == 3
LevelElements == << <<"N">>, <<"O">>, <<"N","e">>, <<"N","o">> >>
LevelLabels == { <<"K">>, <<"L","3">>, <<"M","4">> }
EdgeEnergies == {-16, 0, 16, 48}
\* level i of a table is a level of element i
LevelTables(n) ==
    UNION { { [i \in 1..k |-> [element |-> LevelElements[i], iupac_symbol |-> t[i].label,
                               absorption_edge |-> t[i].edge]] :
              t \in [1..k -> [label : LevelLabels, edge : EdgeEnergies]] } : k \in 0..n }
GuessEnergies == {-16, 0, 16, 28, 32, 1024}
EdgeLists == { <<>>, << << <<"K">> >> >>, << << <<"M","4">>, <<"K">> >> >>, << <<>> >> }

EdgesInit ==
    /\ \E levels \in LevelTables(MaxLevels), e \in GuessEnergies, edges \in EdgeLists :
          input = [op |-> "guess_edge", levels |-> levels, energy |-> e, edges |-> edges]
    /\ output = Err("idle") /\ step = "call"
    /\ ConcIdle /\ ResolveIdle /\ ChemIdle /\ InterpIdle

GuessEdgeCall ==
    /\ step = "call" /\ input.op = "guess_edge"
    /\ output' = guess_edge(input.levels, input.energy, input.edges)
    /\ step' = "done"
    /\ UNCHANGED <<input, concVars, resolveVars, chemVars, interpVars>>

EdgesNext == GuessEdgeCall

SpecEdges == EdgesInit /\ [][EdgesNext]_vars

----------------------------------------------------------------------------
(* Specification SpecIonChamber: one call of ionchamber_fluxes, for every   *)
(* gas list of at most MaxGases gases.                                      *)

MaxGases == 2
GasNames == { <<"N","2">>, <<"o","x","y","g","e","n">>, <<"N","e">>, <<"u","n","o">> }
GasFractions == {-16, 0, 8, 16}
GasLists(n) == UNION { [1..k -> [name : GasNames, frac : GasFractions]] : k \in 0..n }
ChamberSettings ==
    [volts : {1}, length_cm : {10}, sensitivity : {1}, with_compton : BOOLEAN,
     both_carriers : BOOLEAN]

IonChamberInit ==
    /\ \E gases \in GasLists(MaxGases), tabs \in ElamTables, settings \in ChamberSettings :
          input = [op |-> "ionchamber_fluxes", gases |-> gases, row |-> tabs, energy |-> 3,
                   settings |-> settings]
    /\ output = Err("idle") /\ step = "call"
    /\ ConcIdle /\ ResolveIdle /\ ChemIdle /\ InterpIdle

IonchamberFluxesCall ==
    /\ step = "call" /\ input.op = "ionchamber_fluxes"
    /\ output' = ionchamber_fluxes(BuiltDb, ElamData(input.row), IonizationPotentials,
                                   input.gases, input.energy, input.settings)
    /\ step' = "done"
    /\ UNCHANGED <<input, concVars, resolveVars, chemVars, interpVars>>

IonChamberNext == IonchamberFluxesCall

SpecIonChamber == IonChamberInit /\ [][IonChamberNext]_vars

----------------------------------------------------------------------------
(* Specification SpecDarwin: one call of darwin_width.                      *)

\* rows of the tables for the crystals
CrystalData ==
    [ elements |-> <<
          [atomic_number |-> 6,  symbol |-> <<"C">>,     name |-> <<"c","a","r","b","o","n">>],
          [atomic_number |-> 14, symbol |-> <<"S","i">>, name |-> <<"s","i","l","i","c","o","n">>],
          [atomic_number |-> 32, symbol |-> <<"G","e">>,
           name |-> <<"g","e","r","m","a","n","i","u","m">>] >>,
      chantler |-> << [element |-> <<"C">>], [element |-> <<"S","i">>], [element |-> <<"G","e">>] >>,
      photoabsorption |-> << [element |-> <<"C">>], [element |-> <<"S","i">>],
                             [element |-> <<"G","e">>] >>,
      scattering |-> << [element |-> <<"C">>], [element |-> <<"S","i">>],
                        [element |-> <<"G","e">>] >>,
      waasmaier |-> <<
          [atomic_number |-> 6,  element |-> <<"C">>,     ion |-> <<"C">>],
          [atomic_number |-> 14, element |-> <<"S","i">>, ion |-> <<"S","i">>],
          [atomic_number |-> 14, element |-> <<"S","i">>, ion |-> <<"S","i","4","+">>],
          [atomic_number |-> 32, element |-> <<"G","e">>, ion |-> <<"G","e">>] >> ]
CrystalDb == BuildIndices(CrystalData)
CrystalRow ==
    [energy |-> <<3, 5>>, f1 |-> <<-16, 14>>, f2 |-> <<0, 4>>, mu_total |-> <<5, 3>>,
     mu_photo |-> <<4, 1>>, mu_incoh |-> <<2, 0>>]

MillerIndices(lo, hi) == {lo, -3, -2, -1, 0, 1, 2, 3, 4, hi}
Crystals == { <<"S","i">>, <<"s","i">>, <<"G","E">>, <<"C">>,
              <<"d","i","a","m","o","n","d">>, <<"C","u">> }
Polarizations == {"S", "P", "Unpolarized"}

DarwinInit ==
    /\ \E h, k, l \in MillerIndices(I32_MIN, I32_MAX), crystal \in Crystals,
          pol \in Polarizations, ignore \in BOOLEAN, checks \in BOOLEAN,
          numerics \in {"no_bragg", "no_zeta", "curve"} :
          input = [op |-> "darwin_width", energy |-> 4, crystal |-> crystal,
                   hkl |-> <<h, k, l>>, polarization |-> pol,
                   ignore_f1 |-> ignore, ignore_f2 |-> ignore,
                   overflow_checks |-> checks, numerics |-> numerics]
    /\ output = Err("idle") /\ step = "call"
    /\ ConcIdle /\ ResolveIdle /\ ChemIdle /\ InterpIdle

DarwinWidthCall ==
    /\ step = "call" /\ input.op = "darwin_width"
    /\ output' = darwin_width(CrystalDb, CrystalRow, input)
    /\ step' = "done"
    /\ UNCHANGED <<input, concVars, resolveVars, chemVars, interpVars>>

DarwinNext == DarwinWidthCall

SpecDarwin == DarwinInit /\ [][DarwinNext]_vars

----------------------------------------------------------------------------
(* Specification SpecOptics: one call of multilayer_reflectivity or of      *)
(* coated_reflectivity, on stackups of at most MaxLayers layers repeated at *)
(* most MaxPeriods times and at most MaxAngles grazing angles.              *)

MaxLayers == 2
MaxPeriods == 2
MaxAngles == 2
LayerFormulas == { <<"N">>, <<"O">>, <<"U","n","h">> }
Substrates == { <<"N">>, <<"U","n","h">> }
Stackups(n) == UNION { [1..k -> LayerFormulas] : k \in 0..n }
Ones(n) == [i \in 1..n |-> 1]
Angles(n) == [i \in 1..n |-> i]
OpticsRow == 
    [energy |-> <<3, 5>>, f1 |-> <<-16, 14>>, f2 |-> <<0, 4>>, mu_total |-> <<5, 3>>,
     mu_photo |-> <<4, 1>>, mu_incoh |-> <<2, 0>>]
Binders == { <<>>, <<[material |-> <<"O">>, thickness |-> 1, density |-> 1]>>,
             <<[material |-> <<"U","n","h">>, thickness |-> 1, density |-> 1]>> }

OpticsInit ==
    /\ \/ \E stackup \in Stackups(MaxLayers), nt \in 0..MaxLayers, nd \in 0..MaxLayers,
             substrate \in Substrates, na \in 0..MaxAngles, n_periods \in 0..MaxPeriods,
             pol \in Polarizations, checks \in BOOLEAN :
             input = [op |-> "multilayer_reflectivity", stackup |-> stackup,
                      thickness |-> Ones(nt), substrate |-> substrate, theta |-> Angles(na),
                      energy |-> 4, n_periods |-> n_periods, density |-> Ones(nd),
                      substrate_density |-> 1, polarization |-> pol,
                      overflow_checks |-> checks]
       \/ \E coating \in LayerFormulas, binder \in Binders, substrate \in Substrates,
             na \in 0..MaxAngles, pol \in Polarizations, checks \in BOOLEAN :
             input = [op |-> "coated_reflectivity", coating |-> coating, coating_thick |-> 1,
                      substrate |-> substrate, theta |-> Angles(na), energy |-> 4,
                      coating_density |-> 1, substrate_density |-> 1, binder |-> binder,
                      polarization |-> pol, overflow_checks |-> checks]
    /\ output = Err("idle") /\ step = "call"
    /\ ConcIdle /\ ResolveIdle /\ ChemIdle /\ InterpIdle

MultilayerReflectivityCall ==
    /\ step = "call" /\ input.op = "multilayer_reflectivity"
    /\ output' = multilayer_reflectivity(BuiltDb, OpticsRow, input)
    /\ step' = "done"
    /\ UNCHANGED <<input, concVars, resolveVars, chemVars, interpVars>>

CoatedReflectivityCall ==
    /\ step = "call" /\ input.op = "coated_reflectivity"
    /\ output' = coated_reflectivity(BuiltDb, OpticsRow, input)
    /\ step' = "done"
    /\ UNCHANGED <<input, concVars, resolveVars, chemVars, interpVars>>

OpticsNext == MultilayerReflectivityCall \/ CoatedReflectivityCall

SpecOptics == OpticsInit /\ [][OpticsNext]_vars

----------------------------------------------------------------------------
(* Specification SpecGenerate: main serializes, compresses, writes and      *)
(* verifies an aggregate of at most MaxElements element records.            *)

MaxElements == 2
GenNumbers == {7, 128, 16384}
GenSymbols == { <<"N">>, <<"N","e">> }
GenNames == { <<>>, <<"n","e","o","n">> }
GenMasses == {0, 30840}
GenRecords ==
    [atomic_number : GenNumbers, symbol : GenSymbols, name : GenNames, molar_mass : GenMasses]
GenDatabases(n) == { [elements |-> e] : e \in UNION { [1..k -> GenRecords] : k \in 0..n } }
NoBytes == <<>>

GenerateInit ==
    /\ input \in GenDatabases(MaxElements)
    /\ output = [serialized |-> NoBytes, compressed |-> NoBytes, file |-> NoBytes]
    /\ step = "serialize"
    /\ ConcIdle /\ ResolveIdle /\ ChemIdle /\ InterpIdle

\* main.rs 91
SerializeStep ==
    /\ step = "serialize"
    /\ output' = [output EXCEPT !.serialized = to_allocvec(input)]
    /\ step' = "compress"
    /\ UNCHANGED <<input, concVars, resolveVars, chemVars, interpVars>>

\* main.rs 99
CompressStep ==
    /\ step = "compress"
    /\ output' = [output EXCEPT !.compressed = encode_all(output.serialized)]
    /\ step' = "write"
    /\ UNCHANGED <<input, concVars, resolveVars, chemVars, interpVars>>

\* main.rs 118-120
WriteStep ==
    /\ step = "write"
    /\ output' = [output EXCEPT !.file = output.compressed]
    /\ step' = "verify"
    /\ UNCHANGED <<input, concVars, resolveVars, chemVars, interpVars>>

\* main.rs 126-129
VerifyStep ==
    /\ step = "verify"
    /\ step' = GenerateVerify(output.serialized, decode_all(output.compressed))
    /\ UNCHANGED <<input, output, concVars, resolveVars, chemVars, interpVars>>

GenerateNext == SerializeStep \/ CompressStep \/ WriteStep \/ VerifyStep

SpecGenerate == GenerateInit /\ [][GenerateNext]_vars

----------------------------------------------------------------------------
(* Specification SpecSpline: one call of elam_spline on a table of at most  *)
(* MaxSplineKnots strictly increasing knots, with any values and second     *)
(* derivatives, for queries below, inside and above the table.              *)

MaxSplineKnots == 3
SplineKnots == {-16, 0, 16, 32}
SplineValues == {-16, 0, 16}
SplineQueries == {-32, -16, -8, 0, 8, 16, 24, 32, 48}
StrictlyIncreasing(xin) == \A i \in 1..(Len(xin) - 1) : xin[i] < xin[i + 1]
SplineTables(m) ==
    { xin \in UNION { [1..n -> SplineKnots] : n \in 0..m } : StrictlyIncreasing(xin) }

SplineInit ==
    /\ \E xin \in SplineTables(MaxSplineKnots) :
          \E yin, yspl \in [1..Len(xin) -> SplineValues],
             xout \in { <<>> } \cup { <<x>> : x \in SplineQueries } :
             input = [op |-> "elam_spline", xin |-> xin, yin |-> yin, yspl |-> yspl,
                      xout |-> xout]
    /\ output = Err("idle") /\ step = "call"
    /\ ConcIdle /\ ResolveIdle /\ ChemIdle /\ InterpIdle

ElamSplineCall ==
    /\ step = "call" /\ input.op = "elam_spline"
    /\ output' = ElamSplineOf(input.xin, input.yin, input.yspl, input.xout)
    /\ step' = "done"
    /\ UNCHANGED <<input, concVars, resolveVars, chemVars, interpVars>>

SplineNext == ElamSplineCall

SpecSpline == SplineInit /\ [][SplineNext]_vars

----------------------------------------------------------------------------
(* Specification SpecCorehole: one call of parse_corehole_data on files of  *)
(* at most MaxKkLines and MaxKoLines lines, with comments, blank and short  *)
(* lines, repeated keys and a word in the place of a number.                *)

MaxKkLines == 2
MaxKoLines == 2
Line(parts) == [hash |-> FALSE, parts |-> parts]
KkLineChoices ==
    { [hash |-> TRUE, parts |-> << Word(<<"#">>), Num(1), Word(<<"H">>), Word(<<"K">>), Num(99) >>],
      Line(<<>>),
      Line(<< Num(1), Word(<<"H">>), Word(<<"K">>) >>),
      Line(<< Num(1), Word(<<"H">>), Word(<<"K">>), Num(11) >>),
      Line(<< Num(1), Word(<<"H">>), Word(<<"M","1">>), Num(12) >>),
      Line(<< Num(2), Word(<<"H","e">>), Word(<<"L","1">>), Num(13), Num(0) >>),
      Line(<< Num(1), Word(<<"H">>), Word(<<"K">>), Num(14) >>),
      Line(<< Num(2), Word(<<"H","e">>), Word(<<"M","5">>), Num(15) >>),
      Line(<< Word(<<"Z">>), Word(<<"H">>), Word(<<"K">>), Num(16) >>) }
KoLineChoices ==
    { [hash |-> TRUE, parts |-> << Word(<<"#">>), Word(<<"H">>), Num(1), Num(2), Num(3), Num(4) >>],
      Line(<< Num(1), Word(<<"H">>), Num(21), Num(22), Num(23) >>),
      Line(<< Num(1), Word(<<"H">>), Num(21), Num(22), Num(23), Num(24) >>),
      Line(<< Num(2), Word(<<"H","e">>), Num(31), Num(32), Num(33), Num(34) >>),
      Line(<< Num(1), Word(<<"H">>), Num(41), Num(42), Num(43), Num(44) >>),
      Line(<< Num(2), Word(<<"H","e">>), Num(31), Word(<<"x">>), Num(33), Num(34) >>) }
LineFiles(choices, n) == UNION { [1..k -> choices] : k \in 0..n }

CoreholeInit ==
    /\ \E kk \in LineFiles(KkLineChoices, MaxKkLines), ko \in LineFiles(KoLineChoices, MaxKoLines),
          order \in {"ascending", "descending", "rotated"} :
          input = [op |-> "parse_corehole_data", kk_lines |-> kk, ko_lines |-> ko,
                   order |-> order]
    /\ output = Err("idle") /\ step = "call"
    /\ ConcIdle /\ ResolveIdle /\ ChemIdle /\ InterpIdle

ParseCoreholeCall ==
    /\ step = "call" /\ input.op = "parse_corehole_data"
    /\ output' = parse_corehole_data(input.kk_lines, input.ko_lines, input.order)
    /\ step' = "done"
    /\ UNCHANGED <<input, concVars, resolveVars, chemVars, interpVars>>

CoreholeNext == ParseCoreholeCall

SpecCorehole == CoreholeInit /\ [][CoreholeNext]_vars

----------------------------------------------------------------------------
(* Specification SpecIndex: the index maps BuildIndices builds for tables   *)
(* of at most MaxRows rows, with keys that occur once, twice or not at all. *)

MaxRows == 2
IndexElementRows ==
    { [atomic_number |-> z, symbol |-> sy, name |-> to_lowercase(sy)] :
          z \in {7, 8}, sy \in { <<"N">>, <<"O">> } }
IndexSymbolRows == { [element |-> sy] : sy \in { <<"N">>, <<"O">> } }
IndexIonRows ==
    { [atomic_number |-> 7, element |-> <<"N">>, ion |-> <<"N">>],
      [atomic_number |-> 8, element |-> <<"O">>, ion |-> <<"O">>],
      [atomic_number |-> 8, element |-> <<"O">>, ion |-> <<"O","1","-">>],
      [atomic_number |-> 8, element |-> <<"N">>, ion |-> <<"O">>] }
Tables(rows, n) == UNION { [1..k -> rows] : k \in 0..n }

IndexInit ==
    /\ \E e \in Tables(IndexElementRows, MaxRows), c \in Tables(IndexSymbolRows, MaxRows),
          p \in Tables(IndexSymbolRows, MaxRows), sc \in Tables(IndexSymbolRows, MaxRows),
          w \in Tables(IndexIonRows, MaxRows) :
          input = [op |-> "db", elements |-> e, chantler |-> c, photoabsorption |-> p,
                   scattering |-> sc, waasmaier |-> w]
    /\ output = Err("idle") /\ step = "call"
    /\ ConcIdle /\ ResolveIdle /\ ChemIdle /\ InterpIdle

\* db.rs 37-84 on the deserialized tables
BuildIndicesCall ==
    /\ step = "call" /\ input.op = "db"
    /\ output' = BuildIndices([elements |-> input.elements, chantler |-> input.chantler,
                               photoabsorption |-> input.photoabsorption,
                               scattering |-> input.scattering,
                               waasmaier |-> input.waasmaier])
    /\ step' = "done"
    /\ UNCHANGED <<input, concVars, resolveVars, chemVars, interpVars>>

IndexNext == BuildIndicesCall

SpecIndex == IndexInit /\ [][IndexNext]_vars

----------------------------------------------------------------------------
(* Specification SpecParse: chemparse step by step, one action for each     *)
(* stretch of the parser that calls the tokenizer at most once.  output is  *)
(* the Tokenizer (pos), the token in current, the items of the active calls *)
(* of parse_sequence (stack, innermost last), the node waiting for its      *)
(* count, the number of calls of next_token and whether the last one        *)
(* returned Ok.                                                             *)

MaxParseLen == 5
ParseChars == {"H", "e", "2", ".", "(", ")", "-"}
ParseStrings(n) == UNION { [1..k -> ParseChars] : k \in 0..n }

ParserStart ==
    [ pos |-> 0, current |-> TokEos, stack |-> <<>>, pending |-> Sequence(<<>>),
      calls |-> 0, token_ok |-> TRUE, depth |-> 0, res |-> Err("idle") ]

\* tokenizer.next_token(): the Tokenizer and current after the call
Tokenized(o, t, chars) ==
    [o EXCEPT !.calls = @ + 1,
              !.token_ok = t.ok,
              !.pos = IF t.ok THEN t.val.pos ELSE ErrorPos(chars, o.pos),
              !.current = IF t.ok THEN t.val.tok ELSE @]
NextToken(o, chars) == Tokenized(o, next_token(chars, o.pos), chars)

\* return Err(InvalidFormula(..)), through every active call (the ?)
Failed(o) == [o EXCEPT !.stack = <<>>, !.depth = 0, !.res = Err("InvalidFormula")]
\* .map_err(XrayDbError::InvalidFormula)?
OrFailed(o) == IF o.token_ok THEN o ELSE Failed(o)

\* parse_sequence(tokenizer, current): a new call with no items
Called(o) == [o EXCEPT !.stack = Append(@, <<>>), !.depth = @ + 1]
\* items.push((node, count)) in the innermost call
Pushed(o, count) ==
    [o EXCEPT !.stack[Len(o.stack)] = Append(@, <<o.pending, count>>)]
\* Ok((FormulaNode::Sequence(items), current)) to the calling parse_sequence
SequenceReturned(o) ==
    [o EXCEPT !.pending = Sequence(o.stack[Len(o.stack)]),
              !.stack = SubSeq(@, 1, Len(@) - 1),
              !.depth = @ - 1]

ParseInit ==
    /\ input = [op |-> "chemparse", formula |-> <<>>, chars |-> <<>>]
    /\ output = ParserStart /\ step = "call"
    /\ ConcIdle /\ ResolveIdle /\ ChemIdle /\ InterpIdle

ParseUnchanged == UNCHANGED <<input, concVars, resolveVars, chemVars, interpVars>>

\* chemparse(formula): preprocess_formula and Tokenizer::new (chemparser.rs 133-138)
ChemparseCall ==
    /\ step = "call"
    /\ \E f \in ParseStrings(MaxParseLen) :
          input' = [op |-> "chemparse", formula |-> f, chars |-> preprocess_formula(f)]
    /\ step' = "first"
    /\ UNCHANGED <<output, concVars, resolveVars, chemVars, interpVars>>

\* the first token and the call of parse_sequence (chemparser.rs 139-143)
FirstToken ==
    /\ step = "first"
    /\ output' = IF NextToken(output, input.chars).token_ok
                 THEN Called(NextToken(output, input.chars))
                 ELSE Failed(NextToken(output, input.chars))
    /\ step' = IF NextToken(output, input.chars).token_ok THEN "loop" ELSE "done"
    /\ ParseUnchanged

\* Token::LParen: the next token, then the nested call (200-205)
LoopLParen ==
    /\ step = "loop" /\ output.current.type = "LParen"
    /\ output' = IF NextToken(output, input.chars).token_ok
                 THEN Called(NextToken(output, input.chars))
                 ELSE Failed(NextToken(output, input.chars))
    /\ step' = IF NextToken(output, input.chars).token_ok THEN "loop" ELSE "done"
    /\ ParseUnchanged

\* Token::Name: the symbol test and the next token (226-236)
LoopName ==
    /\ step = "loop" /\ output.current.type = "Name"
    /\ IF ~is_element(output.current.name)
       THEN output' = Failed(output) /\ step' = "done"
       ELSE /\ output' = OrFailed([NextToken(output, input.chars) EXCEPT
                                      !.pending = Element(resolve_alias(output.current.name))])
            /\ step' = IF NextToken(output, input.chars).token_ok THEN "count" ELSE "done"
    /\ ParseUnchanged

\* _ => break in a nested call: back in the caller, the test for ')' and the
\* token behind it (249-253, 205-213)
LoopReturn ==
    /\ step = "loop" /\ output.current.type \notin {"LParen", "Name"}
    /\ Len(output.stack) > 1
    /\ IF output.current.type # "RParen"
       THEN output' = Failed(output) /\ step' = "done"
       ELSE /\ output' = OrFailed(NextToken(SequenceReturned(output), input.chars))
            /\ step' = IF NextToken(output, input.chars).token_ok THEN "count" ELSE "done"
    /\ ParseUnchanged

\* _ => break in the outermost call: chemparse tests for Eos and adds up
\* (249-253, 143-154)
LoopEnd ==
    /\ step = "loop" /\ output.current.type \notin {"LParen", "Name"}
    /\ Len(output.stack) = 1
    /\ output' = [SequenceReturned(output) EXCEPT !.res =
                     IF output.current.type # "Eos" THEN Err("InvalidFormula")
                     ELSE Ok(add_to_result(Sequence(output.stack[1]), DecOne, EmptyMap))]
    /\ step' = "done"
    /\ ParseUnchanged

\* "Optional count": a Num is the count and the next token is read, anything
\* else leaves the count at 1 (215-224, 238-247)
OptionalCountStep ==
    /\ step = "count"
    /\ IF output.current.type = "Num"
       THEN /\ output' = OrFailed(NextToken(Pushed(output, output.current.num), input.chars))
            /\ step' = IF NextToken(output, input.chars).token_ok THEN "loop" ELSE "done"
       ELSE output' = Pushed(output, DecOne) /\ step' = "loop"
    /\ ParseUnchanged

ParseNext ==
    \/ ChemparseCall
    \/ FirstToken
    \/ LoopLParen
    \/ LoopName
    \/ LoopReturn
    \/ LoopEnd
    \/ OptionalCountStep

SpecParse == ParseInit /\ [][ParseNext]_vars

----------------------------------------------------------------------------
(* C2 *)

\* C2: for any interleaving of threads whose first access is XrayDb::new(), the
\* initialisation completes at most once, every lookup made through a handle
\* succeeds, and (with a loadable blob) no thread ends without a handle: when
\* nothing more can happen every thread has its handle and has made its lookups.
C2_InitOnce ==
    /\ inits <= 1
    /\ \A t \in Threads : lookups[t].allOk
    /\ \A t \in Threads : handle[t] => (once = "complete" /\ DATABASE # NoDb)
    /\ (blob = ValidBlob /\ ~ENABLED Next) =>
           \A t \in Threads : handle[t] /\ lookups[t].n = MaxLookups

\* every thread holds a handle after one initialisation and has looked up "neon"
C2_Witness ==
    /\ inits = 1
    /\ \A t \in Threads :
          /\ handle[t]
          /\ lookups[t].n = MaxLookups
          /\ lookups[t].last = <<"atomic_number", <<"n","e","o","n">>, Ok(10)>>

----------------------------------------------------------------------------
(* C3 *)

RowsOf(table) == { table[i] : i \in 1..Len(table) }

\* every record of the data is reachable through every index map built for its table
FullyBuilt(d) ==
    /\ d.data = EmbeddedData
    /\ \A e \in RowsOf(d.data.elements) :
          /\ e.symbol \in DOMAIN d.symbol_to_z
          /\ to_lowercase(e.symbol) \in DOMAIN d.symbol_to_z
          /\ e.name \in DOMAIN d.name_to_z
          /\ e.atomic_number \in DOMAIN d.z_to_element_idx
    /\ \A r \in RowsOf(d.data.chantler) : r.element \in DOMAIN d.symbol_to_chantler_idx
    /\ \A r \in RowsOf(d.data.photoabsorption) : r.element \in DOMAIN d.symbol_to_photo_idx
    /\ \A r \in RowsOf(d.data.scattering) : r.element \in DOMAIN d.symbol_to_scatter_idx
    /\ \A r \in RowsOf(d.data.waasmaier) :
          /\ r.ion \in DOMAIN d.ion_to_waasmaier_idx
          /\ r.element \in DOMAIN d.symbol_to_waasmaier_idxs

\* C3: a handle always refers to a completely built database: while a thread
\* holds one the Once is complete and the records and all index maps are there;
\* nothing is visible while the closure runs or after it has failed.
C3_NoPartialPublish ==
    \A t \in Threads :
        handle[t] => /\ once = "complete"
                     /\ DATABASE # NoDb
                     /\ FullyBuilt(DATABASE[1])
                     /\ \A u \in Threads : pc[u] \notin {"decompress", "deserialize", "index", "store", "complete"}

\* one thread holds a handle while another one, which had to wait, has not yet got its own
C3_Witness ==
    \E t, u \in Threads : handle[t] /\ pc[u] = "waiting" /\ ~handle[u] /\ DATABASE # NoDb

----------------------------------------------------------------------------
(* C4 *)

DomainErrors ==
    { "UnknownElement", "UnknownEdge", "UnknownIon", "UnknownGas",
      "EnergyOutOfRange", "InvalidFormula", "DataError" }

\* C4 as stated: a failure of the first access reaches the caller as a value of
\* the library's error type.
C4_FailureIsDomainError ==
    \A t \in Threads : pc[t] = "failed" => local[t].how \in DomainErrors

\* C4 as amended: a failure of decompression or deserialisation is raised as a
\* panic in the calling thread; that thread gets no handle and makes no lookup,
\* the cell stays empty, and with such a blob no thread ever gets a handle.
C4_FailureIsPanic ==
    /\ \A t \in Threads :
          pc[t] = "failed" => /\ local[t].how = "panic"
                              /\ ~handle[t]
                              /\ lookups[t] = NoLookups
                              /\ DATABASE = NoDb
    /\ blob # ValidBlob => \A t \in Threads : ~handle[t] /\ lookups[t] = NoLookups /\ pc[t] # "have"

\* every thread has run the closure on a blob whose payload does not decode, and failed
C4_Witness ==
    /\ blob.payload = "truncated"
    /\ \A t \in Threads : pc[t] = "failed" /\ local[t] = Panic("failed to deserialize data")

----------------------------------------------------------------------------
(* C5 *)

----------------------------------------------------------------------------
(* C6 *)

\* the value of a count text, by table (1 when the count is absent)
CountValue(c) ==
    CASE c = <<>> -> DecOne
      [] c = <<"2">> -> (0 :> 2)
      [] c = <<"4">> -> (0 :> 4)
      [] c = <<"7">> -> (0 :> 7)
      [] c = <<"1","2">> -> (0 :> 2 @@ 1 :> 1)
      [] c = <<"2",".","5">> -> (-1 :> 5 @@ 0 :> 2)
      [] c = <<".","5">> -> (-1 :> 5)
      [] c = <<"3",".">> -> (0 :> 3)

\* every occurrence of a symbol with its own count times the counts of the
\* groups around it, D written as H
RECURSIVE Occurrences(_, _)
Occurrences(forest, mult) ==
    IF forest = <<>> THEN <<>>
    ELSE LET it == Head(forest)
             w == DecMul(mult, CountValue(it.cnt))
         IN (IF it.kind = "symbol"
             THEN << <<IF it.sym = <<"D">> THEN <<"H">> ELSE it.sym, w>> >>
             ELSE Occurrences(it.body, w))
            \o Occurrences(Tail(forest), mult)

RECURSIVE SumFor(_, _)
SumFor(sym, occ) ==
    IF occ = <<>> THEN DecZero
    ELSE DecAdd(IF Head(occ)[1] = sym THEN Head(occ)[2] ELSE DecZero, SumFor(sym, Tail(occ)))

Composition(forest) ==
    LET occ == Occurrences(forest, DecOne)
    IN [sym \in { occ[i][1] : i \in 1..Len(occ) } |-> SumFor(sym, occ)]

\* C6: for every formula of the grammar chemparse returns the map giving each
\* symbol the sum over its occurrences of its count times the counts of the
\* enclosing groups, D counted as H.
C6_Composition == (cpc = "done" /\ ast.has) => cres = Ok(Composition(ast.forest))

\* "H2Er" is rejected
C6_Witness ==
    /\ cpc = "done"
    /\ ast = Forest(<<Leaf(<<"H">>, <<"2">>), Leaf(<<"E","r">>, <<>>)>>)
    /\ cres = Err("InvalidFormula")

----------------------------------------------------------------------------
(* C7 *)

\* C7: for known symbols A, B and a count n in integer or fractional form,
\* chemparse(A n B) succeeds with count n for A and 1 for B (n+1 when A = B).
C7_CountThenSymbol ==
    (cpc = "done" /\ ast.has) =>
        LET A == ast.forest[1].sym
            B == ast.forest[2].sym
            n == CountValue(ast.forest[1].cnt)
        IN cres = Ok(IF A = B THEN (A :> DecAdd(n, DecOne))
                     ELSE (A :> n @@ B :> DecOne))

\* "Fe2Eu" is rejected
C7_Witness ==
    /\ cpc = "done"
    /\ formula = <<"F","e","2","E","u">>
    /\ cres = Err("InvalidFormula")

----------------------------------------------------------------------------
(* C8 *)

StripSpaces(f) == SelectSeq(f, LAMBDA c : c # " ")

IsLetter(c) == is_ascii_uppercase(c) \/ is_ascii_lowercase(c)
IsNumeric(c) == is_ascii_digit(c) \/ c = "."

\* an e/E directly after a digit or '.', and a sign directly after such an e/E
ExponentMarkAt(s, i) == i > 1 /\ s[i] \in {"e", "E"} /\ IsNumeric(s[i - 1])
ExponentSignAt(s, i) == i > 1 /\ s[i] \in {"+", "-"} /\ ExponentMarkAt(s, i - 1)

FormulaChar(c) == IsLetter(c) \/ is_ascii_digit(c) \/ c \in {".", "(", ")"}

\* the uppercase letter at i with the lowercase letters that follow it
RECURSIVE LowerRunEnd(_, _)
LowerRunEnd(s, i) ==
    IF i + 1 <= Len(s) /\ is_ascii_lowercase(s[i + 1]) THEN LowerRunEnd(s, i + 1) ELSE i
NameAt(s, i) == SubSeq(s, i, LowerRunEnd(s, i))

UnknownSymbol(s) ==
    \E i \in 1..Len(s) :
        /\ is_ascii_uppercase(s[i])
        /\ ~ExponentMarkAt(s, i)
        /\ NameAt(s, i) \notin ELEMENTS \cup {<<"D">>}

LowercaseToken(s) ==
    \E i \in 1..Len(s) :
        /\ is_ascii_lowercase(s[i])
        /\ \/ i = 1
           \/ i > 1 /\ s[i - 1] \in {"(", ")"}
           \/ i > 1 /\ IsNumeric(s[i - 1]) /\ s[i] # "e"

Opens(s, i) == Cardinality({j \in 1..i : s[j] = "("})
Closes(s, i) == Cardinality({j \in 1..i : s[j] = ")"})
UnmatchedParen(s) ==
    \/ Opens(s, Len(s)) # Closes(s, Len(s))
    \/ \E i \in 1..Len(s) : Closes(s, i) > Opens(s, i)

\* a count where no symbol or group precedes it, or a second '.' in a count
LeftoverTokens(s) ==
    \/ Len(s) > 0 /\ IsNumeric(s[1])
    \/ \E i \in 2..Len(s) : IsNumeric(s[i]) /\ s[i - 1] = "("
    \/ \E i, j \in 1..Len(s) :
          /\ i < j /\ s[i] = "." /\ s[j] = "."
          /\ \A k \in (i + 1)..(j - 1) : is_ascii_digit(s[k])

StructuralDefect(f) ==
    LET s == StripSpaces(f)
    IN UnknownSymbol(s) \/ LowercaseToken(s) \/ UnmatchedParen(s) \/ LeftoverTokens(s)

Rejected == cres = Err("InvalidFormula") /\ ~validate_formula(formula)

\* C8 as stated: chemparse rejects every input with an unknown symbol, a token
\* starting with a lowercase letter, an unmatched parenthesis, a character that
\* is not a letter, digit, '.', '(' or ')', or left-over tokens.
C8_RejectsAsStated ==
    cpc = "done" =>
        ((StructuralDefect(formula) \/ \E i \in 1..Len(formula) : ~FormulaChar(formula[i]))
            => Rejected)

\* C8 as amended: the same, except that spaces are removed first and that a
\* '+' or '-' directly after the e/E of a count's exponent is part of the count.
C8_Rejects ==
    cpc = "done" =>
        LET s == StripSpaces(formula)
        IN (StructuralDefect(formula)
              \/ \E i \in 1..Len(s) : ~FormulaChar(s[i]) /\ ~ExponentSignAt(s, i))
            => Rejected

\* "(E)" holds the unknown symbol E, "H)" an unmatched parenthesis; both are rejected
C8_Witness ==
    /\ cpc = "done" /\ cres = Err("InvalidFormula")
    /\ formula \in { <<"(","E",")">>, <<"H",")">> }

----------------------------------------------------------------------------
(* C9 *)

StripWhitespace(f) == SelectSeq(f, LAMBDA c : c \notin {" ", TAB})

\* C9 as stated: chemparse(f) equals chemparse of f without its whitespace,
\* whatever the kind of whitespace.
C9_StripsWhitespace == cpc = "done" => cres = chemparse(StripWhitespace(formula))

\* C9 as amended: chemparse(f) equals chemparse of f without its space
\* characters; a tab is not removed and makes the formula invalid.
C9_StripsSpaces ==
    cpc = "done" =>
        /\ cres = chemparse(StripSpaces(formula))
        /\ (\E i \in 1..Len(formula) : formula[i] = TAB) => cres = Err("InvalidFormula")

\* "H 2 H" parses as H2H
C9_Witness ==
    /\ cpc = "done"
    /\ formula = <<"H"," ","2"," ","H">>
    /\ cres = Ok(<<"H">> :> (0 :> 3))

----------------------------------------------------------------------------
(* C10 *)

\* the smallest (1-based) index whose knot is at least x
BracketHi(x, xp) == CHOOSE h \in 1..Len(xp) : xp[h] >= x /\ \A j \in 1..(h - 1) : xp[j] < x

Interpolated(x, xp, fp, lo, hi) ==
    FAdd(fp[lo], FMul(FDiv(FSub(x, xp[lo]), FSub(xp[hi], xp[lo])), FSub(fp[hi], fp[lo])))

AtKnot(x, xp) == \E k \in 1..Len(xp) : xp[k] = x

\* C10: interp_one returns fp[0] for x <= xp[0], else fp[last] for x >= xp[last],
\* between two knots the interpolated value of the bracket [hi - 1, hi] with hi
\* the smallest index whose knot is at least x, at a knot the value of that
\* knot, and it never divides by zero.
C10_InterpOne ==
    ipc = "done" =>
        LET n == Len(ixp)
        IN /\ ires.ok
           /\ ix <= ixp[1] => ires.val = ifp[1]
           /\ (ix > ixp[1] /\ ix >= ixp[n]) => ires.val = ifp[n]
           /\ (ixp[1] < ix /\ ix < ixp[n] /\ ~AtKnot(ix, ixp)) =>
                 LET hi == BracketHi(ix, ixp)
                 IN ires.val = Interpolated(ix, ixp, ifp, hi - 1, hi)
           /\ AtKnot(ix, ixp) => ires.val \in { ifp[k] : k \in { j \in 1..n : ixp[j] = ix } }

\* the query 0 at the middle knot of -1, 0, 1 with values 10, 1, 0 yields 2
C10_Witness ==
    /\ ipc = "done"
    /\ ix = 0 /\ ixp = <<-16, 0, 16>> /\ ifp = <<160, 16, 0>>
    /\ ires = Ok(32)

----------------------------------------------------------------------------
(* C11 *)

\* the numbers the call starts from: queries, knots and table values
LoglogQueries == IF input.op = "interp_loglog" THEN input.x ELSE input.energies
LoglogKnotsOf == IF input.op = "interp_loglog" THEN input.xp ELSE input.row.energy
LoglogTable ==
    IF input.op = "interp_loglog" THEN input.fp
    ELSE IF input.op = "f2_chantler" THEN input.row.f2
    ELSE IF input.kind = "Total" THEN input.row.mu_total
    ELSE IF input.kind = "Photo" THEN input.row.mu_photo
    ELSE input.row.mu_incoh

LogsTaken == step = "done" /\ Len(output.logged.xp) > 0

SmallBecomesFloor(from, to) ==
    \A i \in 1..Len(from) : Abs(from[i]) < SAFE_FLOOR => to[i] = SAFE_FLOOR

----------------------------------------------------------------------------
(* C12 *)

\* the element has a record and rows in the tables the operation reads
HasElamData(db, element) ==
    /\ symbol(db, element).ok
    /\ symbol(db, element).val \in DOMAIN db.symbol_to_photo_idx
    /\ symbol(db, element).val \in DOMAIN db.symbol_to_scatter_idx
HasChantlerData(db, element) ==
    /\ symbol(db, element).ok
    /\ symbol(db, element).val \in DOMAIN db.symbol_to_chantler_idx
ValidMaterial(db, composition) ==
    /\ composition.ok
    /\ PositiveWeight(db, composition.val)
    /\ \A sym \in DOMAIN composition.val : HasElamData(db, sym)
ValidTarget(inp) ==
    CASE inp.op = "mu_elam" -> HasElamData(BuiltDb, inp.element)
      [] inp.op = "material_mu" -> ValidMaterial(BuiltDb, chemparse(inp.formula))
      [] OTHER -> HasChantlerData(BuiltDb, inp.element)

\* the operation of inp applied to the energies en
CallWith(inp, en) ==
    CASE inp.op = "mu_elam" -> mu_elam(BuiltDb, inp.row, inp.element, en, inp.kind)
      [] inp.op = "f1_chantler" -> f1_chantler(BuiltDb, inp.row, inp.element, en)
      [] inp.op = "f2_chantler" -> f2_chantler(BuiltDb, inp.row, inp.element, en).res
      [] inp.op = "mu_chantler" -> mu_chantler(BuiltDb, inp.row, inp.element, en, inp.kind).res
      [] inp.op = "material_mu" ->
            material_mu(BuiltDb, ElamData(inp.row), inp.formula, inp.density, en, inp.kind,
                        inp.order, inp.frac_order)
Returned(inp, out) == IF inp.op \in {"f2_chantler", "mu_chantler"} THEN out.res ELSE out

EntryAlone(inp, r, i) == CallWith(inp, <<inp.energies[i]>>) = Ok(<<r.val[i]>>)
PerEnergy(inp, r) ==
    /\ r.ok
    /\ Len(r.val) = Len(inp.energies)
    /\ \A i \in 1..Len(inp.energies) : EntryAlone(inp, r, i)

\* C12: for a valid element or formula, mu_elam, f1_chantler, f2_chantler,
\* mu_chantler and material_mu return an array as long as the energy array
\* whose entry i is what the operation returns for energies[i] alone; the empty
\* array gives the empty array.
C12_PerEnergy ==
    (step = "done" /\ ValidTarget(input)) => PerEnergy(input, Returned(input, output))

\* material_mu of "NeNO3" at two energies, one above the range of the tables
C12_Witness ==
    /\ step = "done" /\ input.op = "material_mu"
    /\ input.formula = <<"N","e","N","O","3">> /\ input.energies = <<7, 0>>
    /\ output.ok /\ Len(output.val) = 2
    /\ output.val[1] # output.val[2]

----------------------------------------------------------------------------
(* C13 *)

ClampedToElamRange(energies) ==
    [i \in 1..Len(energies) |-> F64Clamp(energies[i], ELAM_EMIN, ELAM_EMAX)]

\* C13: for every element with Elam data mu_elam returns Ok whatever the
\* energies are, below 100 eV and above 800 keV included, and what it returns
\* for an energy is what it returns for that energy clamped to
\* [100 eV, 800 keV]; it never returns EnergyOutOfRange.
C13_Clamps ==
    (step = "done" /\ input.op = "mu_elam") =>
        /\ output.err # "EnergyOutOfRange"
        /\ HasElamData(BuiltDb, input.element) =>
              /\ output.ok
              /\ output = CallWith(input, ClampedToElamRange(input.energies))

\* nitrogen at 10 MeV and at 0 eV gives the values at 800 keV and at 100 eV
C13_Witness ==
    /\ step = "done" /\ input.op = "mu_elam" /\ input.kind = "Photo"
    /\ input.element = <<"N">> /\ input.energies = <<7, 0>>
    /\ output.ok
    /\ output = CallWith(input, <<ELAM_EMAX, ELAM_EMIN>>)
    /\ output.val[1] # output.val[2]

----------------------------------------------------------------------------
(* C14 *)

KindOf(inp, kind) == CallWith([inp EXCEPT !.kind = kind], inp.energies)
SumOfKinds(photo, coherent, incoherent) ==
    [i \in 1..Len(photo) |-> TAdd(TAdd(photo[i], coherent[i]), incoherent[i])]
\* what exp returns is not negative
IsExp(t) == t.op = "exp"
PhotoWithinTotal(total, photo) ==
    /\ total.op = "add" /\ total.args[1].op = "add"
    /\ total.args[1].args[1] = photo
    /\ IsExp(total.args[1].args[2]) /\ IsExp(total.args[2])

\* C14: at every energy what mu_elam returns for Total is the sum of what it
\* returns for Photo, Coherent and Incoherent, so Photo is a summand of Total
\* whose other summands are not negative.
C14_TotalIsSum ==
    (step = "done" /\ input.op = "mu_elam" /\ input.kind = "Total"
        /\ HasElamData(BuiltDb, input.element)) =>
        /\ output.ok /\ KindOf(input, "Photo").ok
        /\ KindOf(input, "Coherent").ok /\ KindOf(input, "Incoherent").ok
        /\ output.val = SumOfKinds(KindOf(input, "Photo").val, KindOf(input, "Coherent").val,
                                   KindOf(input, "Incoherent").val)
        /\ \A i \in 1..Len(output.val) :
              PhotoWithinTotal(output.val[i], KindOf(input, "Photo").val[i])

\* the total cross-section of neon at 1 keV and 100 keV
C14_Witness ==
    /\ step = "done" /\ input.op = "mu_elam" /\ input.kind = "Total"
    /\ input.element = <<"n","e","o","n">> /\ input.energies = <<3, 5>>
    /\ output.ok /\ Len(output.val) = 2
    /\ output.val[1].op = "add"

----------------------------------------------------------------------------
(* C15 *)

\* a formula chemparse accepts with a symbol that has no element record
UnregisteredSymbol(db, composition) ==
    /\ composition.ok
    /\ \E sym \in DOMAIN composition.val : ~element_record(db, sym).ok

\* C15: material_mu and xray_delta_beta return UnknownElement for every
\* formula the parser accepts that contains a symbol with no record in the
\* element registry; the symbol is never dropped as one of molar mass zero.
C15_UnknownElement ==
    (step = "done" /\ input.op \in {"material_mu", "xray_delta_beta"}
        /\ UnregisteredSymbol(BuiltDb, chemparse(input.formula))) =>
        output = Err("UnknownElement")

\* the same where another symbol of the formula gives it a weight above zero
C15_WithWeight ==
    (step = "done" /\ input.op \in {"material_mu", "xray_delta_beta"}
        /\ UnregisteredSymbol(BuiltDb, chemparse(input.formula))
        /\ PositiveWeight(BuiltDb, chemparse(input.formula).val)) =>
        output = Err("UnknownElement")

\* material_mu of "Unh": the zero molar mass makes the weight of the formula
\* zero and the call returns InvalidFormula
C15_Witness ==
    /\ step = "done" /\ input.op = "material_mu"
    /\ input.formula = <<"U","n","h">>
    /\ output = Err("InvalidFormula")

----------------------------------------------------------------------------
(* C16 *)

\* material_mu with the arguments of inp, for the formula f and the density rho
MaterialMuFor(inp, f, rho) ==
    material_mu(BuiltDb, ElamData(inp.row), f, rho, inp.energies, inp.kind,
                inp.orders.order, inp.orders.frac_order)
Computes(out, inp, f, rho) ==
    /\ out.material_mu = <<[formula |-> f, density |-> rho]>>
    /\ out.res = MaterialMuFor(inp, f, rho)

\* C16: material_mu_named computes material_mu of the registry formula with
\* the density supplied, or with the registry density when none is supplied,
\* if the name is found; of the name as formula with the density supplied if
\* it is not found; and returns DataError without a call of material_mu if the
\* name is not found and no density is supplied.
C16_Named ==
    (step = "done" /\ input.op = "material_mu_named") =>
        IF find_material(input.name) # <<>>
        THEN IF input.density # NoDensity
             THEN Computes(output, input, find_material(input.name)[1].formula,
                           input.density[1])
             ELSE Computes(output, input, find_material(input.name)[1].formula,
                           find_material(input.name)[1].density)
        ELSE IF input.density # NoDensity
             THEN Computes(output, input, input.name, input.density[1])
             ELSE output = [material_mu |-> <<>>, res |-> Err("DataError")]

\* "Nitrogen" with a density of its own: the formula N of the registry
C16_Witness ==
    /\ step = "done" /\ input.op = "material_mu_named"
    /\ input.name = <<"N","i","t","r","o","g","e","n">>
    /\ input.density = <<2>> /\ input.energies = <<3>>
    /\ output.material_mu = <<[formula |-> <<"N">>, density |-> 2]>>
    /\ output.res.ok

----------------------------------------------------------------------------
(* C17 *)

NameMatches(table, name) == { i \in 1..Len(table) : table[i].name = to_lowercase(name) }
FormulaMatches(table, name) ==
    { i \in 1..Len(table) : to_lowercase(table[i].formula) = to_lowercase(name) }
First(S) == CHOOSE i \in S : \A j \in S : i <= j
Entry(table, i) == <<[formula |-> table[i].formula, density |-> table[i].density]>>

\* C17: find_material returns formula and density of the registry entry whose
\* name is the name in lowercase; if there is none, of the first entry in
\* registry order whose formula is the name ignoring case; if there is none
\* either, nothing.
C17_FindMaterial ==
    (step = "done" /\ input.op = "find_material") =>
        IF NameMatches(MATERIALS, input.name) # {}
        THEN output = Entry(MATERIALS, First(NameMatches(MATERIALS, input.name)))
        ELSE IF FormulaMatches(MATERIALS, input.name) # {}
             THEN output = Entry(MATERIALS, First(FormulaMatches(MATERIALS, input.name)))
             ELSE output = <<>>

\* "bn" is no name; it is the formula of two entries, and the first is returned
C17_Witness ==
    /\ step = "done" /\ input.op = "find_material" /\ input.name = <<"b","n">>
    /\ output = <<[formula |-> <<"B","N">>, density |-> 21000000]>>

----------------------------------------------------------------------------
(* C18 *)

Candidates(edges) == IF edges = <<>> THEN DEFAULT_EDGES ELSE edges[1]
Qualifies(levels, edges, i) ==
    /\ Contains(Candidates(edges), levels[i].iupac_symbol)
    /\ levels[i].absorption_edge > 0
Qualifying(levels, edges) == { i \in 1..Len(levels) : Qualifies(levels, edges, i) }
\* |edge_energy - energy| as the code computes it
Distance(levels, energy, i) == Abs(FSub(levels[i].absorption_edge, energy))
Nearest(levels, energy, edges) ==
    { i \in Qualifying(levels, edges) :
        \A j \in Qualifying(levels, edges) :
            Distance(levels, energy, i) <= Distance(levels, energy, j) }
LevelOf(levels, i) == <<[element |-> levels[i].element, edge |-> levels[i].iupac_symbol]>>

\* C18: guess_edge returns element and edge label of the level that is
\* nearest to the energy among the levels whose label is a candidate (K, L3,
\* L2, L1, M5 by default) and whose edge energy is above zero, the earliest of
\* the table if several are nearest; it returns nothing exactly when no level
\* qualifies.
C18_GuessEdge ==
    (step = "done" /\ input.op = "guess_edge") =>
        IF Qualifying(input.levels, input.edges) = {} THEN output = <<>>
        ELSE output = LevelOf(input.levels,
                              First(Nearest(input.levels, input.energy, input.edges)))

\* 32 between the K edges 16 of the second level and 48 of the first: the
\* first is returned
C18_Witness ==
    /\ step = "done" /\ input.op = "guess_edge" /\ input.energy = 32
    /\ input.edges = <<>> /\ Len(input.levels) = 3
    /\ input.levels[1].absorption_edge = 48 /\ input.levels[1].iupac_symbol = <<"K">>
    /\ input.levels[2].absorption_edge = 16 /\ input.levels[2].iupac_symbol = <<"K">>
    /\ input.levels[3].absorption_edge = 0
    /\ output = <<[element |-> <<"N">>, edge |-> <<"K">>]>>

----------------------------------------------------------------------------
(* C19 *)

\* the sum of the gas fractions, added in the order of the list
RECURSIVE FractionSum(_)
FractionSum(gases) ==
    IF gases = <<>> THEN 0
    ELSE FAdd(FractionSum(SubSeq(gases, 1, Len(gases) - 1)), gases[Len(gases)].frac)

\* C19: ionchamber_fluxes returns DataError whenever the gas fractions sum to
\* zero or less, the empty gas list included, and it does so before any
\* material, ionization potential or Compton lookup.
C19_FractionSum ==
    (step = "done" /\ input.op = "ionchamber_fluxes" /\ FractionSum(input.gases) <= 0) =>
        output = [lookups |-> <<>>, res |-> Err("DataError")]

\* nitrogen and an unknown gas whose fractions cancel, with the Compton energy
\* asked for
C19_Witness ==
    /\ step = "done" /\ input.op = "ionchamber_fluxes"
    /\ input.settings.with_compton
    /\ Len(input.gases) = 2
    /\ input.gases[1].frac = 16 /\ input.gases[2].frac = -16
    /\ input.gases[2].name = <<"u","n","o">>
    /\ output.lookups = <<>> /\ output.res = Err("DataError")

----------------------------------------------------------------------------
(* C20 *)

Supported(crystal) ==
    to_lowercase(crystal) \in { <<"s","i">>, <<"g","e">>, <<"c">>,
                                <<"d","i","a","m","o","n","d">> }
Even(n) == \E q \in -Pow2(I32_BITS)..Pow2(I32_BITS) : n = 2 * q
DivisibleByFour(n) == \E q \in -Pow2(I32_BITS)..Pow2(I32_BITS) : n = 4 * q
EvenCase(hkl) ==
    Even(hkl[1]) /\ Even(hkl[2]) /\ Even(hkl[3]) /\ DivisibleByFour(hkl[1] + hkl[2] + hkl[3])
OddCase(hkl) == ~Even(hkl[1]) /\ ~Even(hkl[2]) /\ ~Even(hkl[3])

DarwinAsClaimed(inp, out) ==
    /\ out.res = Err("DataError") <=> ~(EvenCase(inp.hkl) \/ OddCase(inp.hkl))
    /\ EvenCase(inp.hkl) => out.eqr = "8.0"
    /\ OddCase(inp.hkl) => out.eqr = "4.0 * SQRT_2"

\* C20: for a supported crystal and all Miller indices, negative and zero
\* included, darwin_width returns DataError exactly when the indices are
\* neither all even with a sum divisible by 4 nor all odd; the structure
\* factor is 8 in the even case and 4 sqrt(2) in the odd case.
C20_Parity ==
    (step = "done" /\ input.op = "darwin_width" /\ Supported(input.crystal)) =>
        DarwinAsClaimed(input, output)

\* the same for the calls in which h + k + l does not overflow or the build
\* wraps
C20_ParityNoPanic ==
    (step = "done" /\ input.op = "darwin_width" /\ Supported(input.crystal)
        /\ ~(input.overflow_checks
             /\ HklSum(input.hkl[1], input.hkl[2], input.hkl[3]).overflow)) =>
        DarwinAsClaimed(input, output)

\* the largest index, 1 and 0: mixed parity, and h + k overflows
C20_Witness ==
    /\ step = "done" /\ input.op = "darwin_width" /\ input.crystal = <<"S","i">>
    /\ input.hkl = <<I32_MAX, 1, 0>> /\ input.overflow_checks
    /\ output.res = Err("panic")

----------------------------------------------------------------------------
(* C21 *)

\* every formula is accepted by xray_delta_beta and the lengths match
ValidLayer(f) == xray_delta_beta(BuiltDb, OpticsRow, f, 1, 4, LayerOrder(f)).ok
ValidStack(inp) ==
    /\ Len(inp.stackup) = Len(inp.thickness) /\ Len(inp.stackup) = Len(inp.density)
    /\ Len(inp.stackup) >= 1 /\ inp.n_periods >= 1
    /\ \A i \in 1..Len(inp.stackup) : ValidLayer(inp.stackup[i])
    /\ ValidLayer(inp.substrate)
ValidCoating(inp) ==
    /\ ValidLayer(inp.coating) /\ ValidLayer(inp.substrate)
    /\ inp.binder # <<>> => ValidLayer(inp.binder[1].material)
ValidOptics(inp) ==
    \/ inp.op = "multilayer_reflectivity" /\ ValidStack(inp)
    \/ inp.op = "coated_reflectivity" /\ ValidCoating(inp)

\* C21: with Unpolarized polarization and otherwise valid arguments,
\* multilayer_reflectivity and coated_reflectivity return DataError, whatever
\* the number of grazing angles.
C21_Unpolarized ==
    (step = "done" /\ input.polarization = "Unpolarized" /\ ValidOptics(input)) =>
        output = Err("DataError")

\* the same for calls with at least one grazing angle
C21_UnpolarizedWithAngles ==
    (step = "done" /\ input.polarization = "Unpolarized" /\ ValidOptics(input)
        /\ Len(input.theta) >= 1) =>
        output = Err("DataError")

\* Unpolarized, a valid stackup and no angle: the call returns an empty Vec
C21_Witness ==
    /\ step = "done" /\ input.op = "multilayer_reflectivity"
    /\ input.polarization = "Unpolarized" /\ ValidStack(input)
    /\ input.theta = <<>> /\ output = Ok(<<>>)

----------------------------------------------------------------------------
(* C27 *)

MatchingLengths(inp) ==
    Len(inp.stackup) = Len(inp.thickness) /\ Len(inp.stackup) = Len(inp.density)
NoLayers(inp) == Len(inp.stackup) = 0 \/ inp.n_periods = 0

\* C27: with thickness and density of the length of the stackup,
\* multilayer_reflectivity ends with Ok or Err and reads no layer index out
\* of range, for every stackup length and number of periods, zero included.
C27_NoAbort ==
    (step = "done" /\ input.op = "multilayer_reflectivity" /\ MatchingLengths(input)) =>
        output.err # "panic"

\* the same for calls with at least one layer above the substrate, or
\* without angles
C27_NoAbortWithLayers ==
    (step = "done" /\ input.op = "multilayer_reflectivity" /\ MatchingLengths(input)
        /\ (~NoLayers(input) \/ input.theta = <<>>)) =>
        output.err # "panic"

\* an empty stackup on a valid substrate, one angle: the call panics
C27_Witness ==
    /\ step = "done" /\ input.op = "multilayer_reflectivity"
    /\ input.stackup = <<>> /\ MatchingLengths(input) /\ ValidLayer(input.substrate)
    /\ input.polarization = "S" /\ Len(input.theta) = 1
    /\ output = Err("panic")

----------------------------------------------------------------------------
(* C22 *)

----------------------------------------------------------------------------
(* C23 *)

SplineDone == step = "done" /\ input.op = "elam_spline" /\ output.ok /\ input.xout # <<>>
KnotsBelow(xin, x) == Cardinality({ j \in 1..Len(xin) : xin[j] < x })
ClampTo(n, lo, hi) == IF n < lo THEN lo ELSE IF n > hi THEN hi ELSE n

\* the cubic on the bracket (lo, hi), counted from 0, at x itself
CubicWeights(x, xlo, xhi) ==
    [a |-> FDiv(FSub(xhi, x), FSub(xhi, xlo)), b |-> FDiv(FSub(x, xlo), FSub(xhi, xlo)),
     h |-> FDiv(FMul(FSub(xhi, xlo), FSub(xhi, xlo)), 6 * FloatOne)]
CubicOf(w, ylo, yhi, slo, shi) ==
    FAdd(FAdd(FMul(w.a, ylo), FMul(w.b, yhi)),
         FMul(w.h, FAdd(FMul(FMul(FSub(FMul(w.a, w.a), FloatOne), w.a), slo),
                        FMul(FMul(FSub(FMul(w.b, w.b), FloatOne), w.b), shi))))
CubicOn(inp, x, lo, hi) ==
    CubicOf(CubicWeights(x, inp.xin[lo + 1], inp.xin[hi + 1]),
            inp.yin[lo + 1], inp.yin[hi + 1], inp.yspl[lo + 1], inp.yspl[hi + 1])

BracketAsClaimed(inp, out, i) ==
    /\ out.brackets[i].hi = ClampTo(KnotsBelow(inp.xin, inp.xout[i]), 1, Len(inp.xin) - 1)
    /\ out.brackets[i].lo = out.brackets[i].hi - 1
    /\ inp.xout[i] < inp.xin[1] => out.brackets[i] = [lo |-> 0, hi |-> 1]
    /\ inp.xout[i] > inp.xin[Len(inp.xin)] =>
          out.brackets[i] = [lo |-> Len(inp.xin) - 2, hi |-> Len(inp.xin) - 1]
    /\ out.values[i] = CubicOn(inp, inp.xout[i], out.brackets[i].lo, out.brackets[i].hi)

\* C23: every query x is evaluated on the bracket hi = clamp(number of
\* knots strictly below x, 1, len - 1), lo = hi - 1, with the cubic formula
\* at x itself: below the table on (0, 1), above it on (len - 2, len - 1).
C23_Bracket ==
    SplineDone => \A i \in 1..Len(input.xout) : BracketAsClaimed(input, output.val, i)

\* a query below the first knot whose value is not that of the first knot
C23_Witness ==
    /\ SplineDone /\ Len(input.xin) = 3
    /\ input.xout[1] < input.xin[1]
    /\ output.val.brackets[1] = [lo |-> 0, hi |-> 1]
    /\ output.val.values[1] # input.yin[1]
    /\ output.val.values[1] #
          CubicOn(input, input.xin[1], 0, 1)

----------------------------------------------------------------------------
(* C24 *)

IsKnot(xin, x) == \E k \in 1..Len(xin) : xin[k] = x
ValueAtKnot(inp, x) == inp.yin[CHOOSE k \in 1..Len(inp.xin) : inp.xin[k] = x]
AllZero(seq) == \A k \in 1..Len(seq) : seq[k] = 0

\* linear interpolation between the two knots of the bracket, a * yin[lo] +
\* b * yin[hi] with the float weights a and b of the query
LinearOf(w, ylo, yhi) == FAdd(FMul(w.a, ylo), FMul(w.b, yhi))
OnTheLine(inp, x, lo, hi, v) ==
    v = LinearOf(CubicWeights(x, inp.xin[lo + 1], inp.xin[hi + 1]),
                 inp.yin[lo + 1], inp.yin[hi + 1])

\* C24: at a knot xin[k] of a strictly increasing table elam_spline returns
\* yin[k], whatever the second derivatives, first and last knot included;
\* with all second derivatives zero the value is the linear interpolation
\* between the two knots of the bracket.
C24_Knots ==
    SplineDone =>
        \A i \in 1..Len(input.xout) :
            /\ IsKnot(input.xin, input.xout[i]) =>
                  output.val.values[i] = ValueAtKnot(input, input.xout[i])
            /\ AllZero(input.yspl) =>
                  OnTheLine(input, input.xout[i], output.val.brackets[i].lo,
                            output.val.brackets[i].hi, output.val.values[i])

\* the last knot of three, with second derivatives that are not zero
C24_Witness ==
    /\ SplineDone /\ Len(input.xin) = 3 /\ input.xout[1] = input.xin[3]
    /\ input.yspl[3] # 0 /\ input.yspl[2] # 0 /\ input.yin[3] # input.yin[2]
    /\ output.val.values[1] = input.yin[3]

----------------------------------------------------------------------------
(* C26 *)

\* C26: for a table of at least two strictly increasing knots and every
\* query x, 0 <= lo = hi - 1, hi <= len - 1 and xin[hi] - xin[lo] > 0; when
\* xin[0] <= x <= xin[last], xin[lo] <= x <= xin[hi].
C26_BracketInRange ==
    (step = "done" /\ input.op = "elam_spline" /\ Len(input.xin) >= 2 /\ input.xout # <<>>) =>
        /\ output.ok
        /\ \A i \in 1..Len(input.xout) :
              /\ 0 <= output.val.brackets[i].lo
              /\ output.val.brackets[i].lo = output.val.brackets[i].hi - 1
              /\ output.val.brackets[i].hi <= Len(input.xin) - 1
              /\ FSub(input.xin[output.val.brackets[i].hi + 1],
                      input.xin[output.val.brackets[i].lo + 1]) > 0
              /\ (input.xin[1] <= input.xout[i] /\ input.xout[i] <= input.xin[Len(input.xin)]) =>
                    /\ input.xin[output.val.brackets[i].lo + 1] <= input.xout[i]
                    /\ input.xout[i] <= input.xin[output.val.brackets[i].hi + 1]

\* a query strictly inside the second bracket of three knots
C26_Witness ==
    /\ SplineDone /\ Len(input.xin) = 3
    /\ input.xin[2] < input.xout[1] /\ input.xout[1] < input.xin[3]
    /\ output.val.brackets[1] = [lo |-> 1, hi |-> 2]

----------------------------------------------------------------------------
(* C25 *)

KeyOf(rec) == <<rec.atomic_number, rec.edge>>
KeysIn(records) == { KeyOf(records[i]) : i \in 1..Len(records) }
\* the width of the last record with the key
LastWidth(records, key) ==
    records[CHOOSE i \in 1..Len(records) :
               /\ KeyOf(records[i]) = key
               /\ \A j \in (i + 1)..Len(records) : KeyOf(records[j]) # key].width

MergedAsClaimed(kk, ko, merged) ==
    /\ KeysIn(merged) = KeysIn(kk) \cup KeysIn(ko)
    /\ Len(merged) = Cardinality(KeysIn(kk) \cup KeysIn(ko))
    /\ \A i \in 1..Len(merged) :
          /\ KeyOf(merged[i]) \in KeysIn(ko) =>
                /\ merged[i].width = LastWidth(ko, KeyOf(merged[i]))
                /\ merged[i].edge \in { KO_EDGES[e] : e \in 1..Len(KO_EDGES) }
          /\ KeyOf(merged[i]) \notin KeysIn(ko) =>
                merged[i].width = LastWidth(kk, KeyOf(merged[i]))
    /\ \A i \in 1..(Len(merged) - 1) : KeyLess(KeyOf(merged[i]), KeyOf(merged[i + 1]))

\* C25: the merged corelevel_widths table has exactly one row for every
\* (Z, edge) of the Keski-Rahkonen-Krause rows or the Krause-Oliver rows,
\* with the Krause-Oliver width when Krause-Oliver has the key (edges K, L1,
\* L2, L3) and the Keski-Rahkonen-Krause width otherwise, in ascending order
\* of (Z, edge).
C25_Merged ==
    (step = "done" /\ input.op = "parse_corehole_data" /\ output.ok) =>
        MergedAsClaimed(output.val.kk, output.val.ko, output.val.corelevel)

\* a key of both tables, a key of the first table only, and values that do
\* not come out of the map in order
C25_Witness ==
    /\ step = "done" /\ input.op = "parse_corehole_data" /\ output.ok
    /\ input.order = "descending"
    /\ <<1, <<"K">>>> \in KeysIn(output.val.kk) \cap KeysIn(output.val.ko)
    /\ <<1, <<"M","1">>>> \in KeysIn(output.val.kk)
    /\ <<2, <<"L","1">>>> \in KeysIn(output.val.ko)
    /\ output.val.corelevel[1].width # output.val.kk[1].width
    /\ Len(output.val.corelevel) = 9

----------------------------------------------------------------------------
(* C28 *)

AllowedIndices(hkl) == EvenCase(hkl) \/ OddCase(hkl)
\* the call came back with Ok or aborted on an overflow of the index
\* arithmetic: it returned no error
NoErrorReturned(out) == out.res.ok \/ out.res = Err("panic")

\* C28: for every crystal name that the lattice match of darwin_width accepts
\* (si, ge, c, diamond in any letter case) and allowed Miller indices, the
\* Chantler and f0 lookups made with that name succeed and the call returns
\* no error.
C28_AcceptedName ==
    (step = "done" /\ input.op = "darwin_width" /\ Supported(input.crystal)
        /\ AllowedIndices(input.hkl)) =>
        NoErrorReturned(output)

\* the same for the names that are the symbol of an element in its own
\* spelling, which is also the key of its neutral ion
C28_SymbolName ==
    (step = "done" /\ input.op = "darwin_width"
        /\ input.crystal \in { <<"S","i">>, <<"G","e">>, <<"C">> }
        /\ AllowedIndices(input.hkl)) =>
        NoErrorReturned(output)

\* diamond (1,1,1) with the Bragg condition met: the Chantler lookup of
\* "diamond" fails
C28_Witness ==
    /\ step = "done" /\ input.op = "darwin_width"
    /\ input.crystal = <<"d","i","a","m","o","n","d">>
    /\ input.hkl = <<1, 1, 1>> /\ input.numerics = "curve" /\ ~input.ignore_f1
    /\ output.res = Err("UnknownElement")

\* si (1,1,1): the Chantler lookups resolve "si" to silicon, f0 finds no ion
\* of that spelling
C28_WitnessLowerCase ==
    /\ step = "done" /\ input.op = "darwin_width"
    /\ input.crystal = <<"s","i">>
    /\ input.hkl = <<1, 1, 1>> /\ input.numerics = "curve" /\ ~input.ignore_f1
    /\ output.res = Err("UnknownIon")

----------------------------------------------------------------------------
(* C29 *)

\* the field of a row that is the key of its map
Key(field, r) ==
    CASE field = "element" -> r.element
      [] field = "ion" -> r.ion
      [] OTHER -> r.atomic_number

\* every entry of the map is an index of the table, and the row there has the
\* entry's key
EntriesValid(table, map, field) ==
    \A k \in DOMAIN map :
        /\ map[k] \in 0..(Len(table) - 1)
        /\ RowBy(table, map, k).ok
        /\ Key(field, RowBy(table, map, k).val) = k
UniqueKeys(table, field) ==
    \A i, j \in 1..Len(table) : Key(field, table[i]) = Key(field, table[j]) => i = j
\* every row is the one its key leads to
AllReachable(table, map, field) ==
    \A i \in 1..Len(table) : RowBy(table, map, Key(field, table[i])) = Ok(table[i])
Indexed(table, map, field) ==
    /\ EntriesValid(table, map, field)
    /\ UniqueKeys(table, field) => AllReachable(table, map, field)

\* the same for the lists of Waasmaier indices of a symbol
ListsValid(db) ==
    \A k \in DOMAIN db.symbol_to_waasmaier_idxs :
        \A n \in 1..Len(waasmaier_indices_by_symbol(db, k).val) :
            /\ At0(db.data.waasmaier, waasmaier_indices_by_symbol(db, k).val[n]).ok
            /\ At0(db.data.waasmaier, waasmaier_indices_by_symbol(db, k).val[n]).val.element = k
ListsReach(db) ==
    \A i \in 1..Len(db.data.waasmaier) :
        /\ waasmaier_indices_by_symbol(db, db.data.waasmaier[i].element).ok
        /\ \E n \in 1..Len(waasmaier_indices_by_symbol(db, db.data.waasmaier[i].element).val) :
              waasmaier_indices_by_symbol(db, db.data.waasmaier[i].element).val[n] = i - 1

AllIndexed(db) ==
    /\ Indexed(db.data.elements, db.z_to_element_idx, "atomic_number")
    /\ Indexed(db.data.chantler, db.symbol_to_chantler_idx, "element")
    /\ Indexed(db.data.photoabsorption, db.symbol_to_photo_idx, "element")
    /\ Indexed(db.data.scattering, db.symbol_to_scatter_idx, "element")
    /\ Indexed(db.data.waasmaier, db.ion_to_waasmaier_idx, "ion")
    /\ ListsValid(db)
    /\ UniqueKeys(db.data.waasmaier, "element") => ListsReach(db)

\* C29: once the indices are built, every entry of the maps from Z to the
\* element index, from symbol to the Chantler, photoabsorption and scattering
\* index, from ion to the Waasmaier index and from symbol to the list of
\* Waasmaier indices is an index of its table whose row carries the entry's
\* key; in a table with unique keys every row is reached through its key.
C29_IndexMaps ==
    (step = "done" /\ input.op = "db") => AllIndexed(output)

\* two elements with the same atomic number, two Chantler rows of different
\* symbols, and two ions of one symbol: the second element hides the first
C29_Witness ==
    /\ step = "done" /\ input.op = "db"
    /\ Len(input.elements) = 2
    /\ input.elements[1].atomic_number = input.elements[2].atomic_number
    /\ input.elements[1].symbol # input.elements[2].symbol
    /\ Len(input.chantler) = 2 /\ UniqueKeys(input.chantler, "element")
    /\ Len(input.waasmaier) = 2 /\ UniqueKeys(input.waasmaier, "ion")
    /\ ~UniqueKeys(input.waasmaier, "element")
    /\ RowBy(output.data.elements, output.z_to_element_idx,
             input.elements[1].atomic_number) = Ok(input.elements[2])
    /\ RowBy(output.data.chantler, output.symbol_to_chantler_idx,
             input.chantler[2].element) = Ok(input.chantler[2])
    /\ waasmaier_indices_by_symbol(output, input.waasmaier[1].element) = Ok(<<0, 1>>)

----------------------------------------------------------------------------
(* C30 *)

RECURSIVE CountOf(_, _)
CountOf(chars, c) ==
    IF chars = <<>> THEN 0
    ELSE (IF Head(chars) = c THEN 1 ELSE 0) + CountOf(Tail(chars), c)

\* a call of next_token moves the position forward, or returns Eos, or fails
TokenizerAdvances ==
    output'.calls # output.calls =>
        \/ output'.pos > output.pos
        \/ output'.token_ok /\ output'.current = TokEos
        \/ ~output'.token_ok
\* the position never moves backwards
PositionMonotone == output'.pos >= output.pos
PositionInRange == output.pos \in 0..Len(input.chars)
\* the calls of parse_sequence inside the outermost one are at most the '('
DepthBounded ==
    /\ output.depth = Len(output.stack)
    /\ output.depth <= 1 + CountOf(input.chars, "(")
\* a call that has not returned can take a step: the guards of the actions
\* cover every state it can be in
ParseRunnable ==
    \/ step \in {"call", "first", "done"}
    \/ step = "count" /\ Len(output.stack) >= 1
    \/ step = "loop" /\ Len(output.stack) >= 1
ParseReturned == step = "done" => output.res # Err("idle") /\ output.stack = <<>>

\* a natural number that every step of a call makes smaller: the characters
\* not yet read and the token in current weigh 4 each, an active call of
\* parse_sequence 2, the place in the code 0..3
StepRank == CASE step = "first" -> 3 [] step = "count" -> 1 [] OTHER -> 0
ParseVariant ==
    IF step = "done" THEN 0
    ELSE 1 + 4 * (Len(input.chars) - output.pos)
           + (IF output.current # TokEos THEN 4 ELSE 0)
           + 2 * output.depth + StepRank
VariantDecreases == step # "call" => ParseVariant' < ParseVariant

\* C30: chemparse returns on every input string: every call of the tokenizer
\* moves the read position forward by at least one character or returns
\* end-of-string or an error, the position never moves backwards or past the
\* end of the input, and the nesting of parse_sequence is bounded by the
\* number of '(' characters.  Termination is the variant: every step of a call
\* makes a natural number smaller, and a call that has not returned is never
\* without a step.
C30_Terminates ==
    /\ [][TokenizerAdvances /\ PositionMonotone /\ VariantDecreases]_vars
    /\ [](PositionInRange /\ DepthBounded /\ ParseRunnable /\ ParseReturned
            /\ ParseVariant \in Nat)

\* what the steps return is what chemparse returns
ParseAgrees == step = "done" => output.res = chemparse(input.formula)

\* "((H))" parsed to the end: two nested calls, six calls of the tokenizer
C30_Witness ==
    /\ step = "done" /\ input.formula = <<"(","(","H",")",")">>
    /\ output.res.ok /\ output.calls = 6 /\ output.pos = 5

====
